---- MODULE Spec2Model ----
(***************************************************************************)
(* A model of evm-tx-replay: the text-trace line parser and the gas        *)
(* reconciler (utils/eip3155_simple.py), the pre-state walker and account  *)
(* resolver (utils/collect_pre.py, utils/tools.py) and the trace           *)
(* comparator (utils/compare_traces.py).                                   *)
(*                                                                         *)
(* Python strings are sequences of one-character strings, so that parsing  *)
(* and formatting (int(s, 16), hex(n), str.lower, value[2:]) are computed  *)
(* and not assumed.  A Python dict is a function; its DOMAIN is its key    *)
(* set.  Python's None is the record NoneVal.                              *)
(***************************************************************************)
EXTENDS Integers, Sequences, FiniteSets, TLC

VARIABLES
    \* convert_trace_lines_to_eip3155
    trace_lines, arena, arena_gas, arena_gas_cost, parsed_steps, eip3155_steps, gpc, gi,
    \* parse_trace_line
    line, parsed, lpc,
    \* collect_pre
    trace_list, address_list, storage_dict, second_dict, pending, failed, pre_dict, ppc,
    \* compare_traces.main
    file1, file2, no_gas, traces1, traces2, ci, all_match, gas_mismatch_count, reported,
    result, cpc,
    \* normalize_value applied to two field values
    value1, value2, normalized1, normalized2, npc,
    \* get_statistics
    numbers, stats, spc,
    \* collect_transaction_data
    cast_lines, cast_json, env_info, tx_trace_lines, tx_arena, tx_stats, files, txpc,
    \* collect_from_file and collect_from_block
    entry_point, tx_list, max_attempts, bi, attempts, successful, invocations, batch_stats, bpc

gasVars == <<trace_lines, arena, arena_gas, arena_gas_cost, parsed_steps, eip3155_steps, gpc, gi>>
lineVars == <<line, parsed, lpc>>
preVars == <<trace_list, address_list, storage_dict, second_dict, pending, failed, pre_dict, ppc>>
cmpVars == <<file1, file2, no_gas, traces1, traces2, ci, all_match, gas_mismatch_count,
             reported, result, cpc>>
normVars == <<value1, value2, normalized1, normalized2, npc>>
statVars == <<numbers, stats, spc>>
txVars == <<cast_lines, cast_json, env_info, tx_trace_lines, tx_arena, tx_stats, files, txpc>>
batchVars == <<entry_point, tx_list, max_attempts, bi, attempts, successful, invocations,
               batch_stats, bpc>>
vars == <<gasVars, lineVars, preVars, cmpVars, normVars, statVars, txVars, batchVars>>

NoneVal == [none |-> TRUE]

(***************************************************************************)
(* Strings and numbers                                                     *)
(***************************************************************************)
HexChars == <<"0", "1", "2", "3", "4", "5", "6", "7", "8", "9", "a", "b", "c", "d", "e", "f">>

DecChars == {"0", "1", "2", "3", "4", "5", "6", "7", "8", "9"}

\* str.lower on one character (the letters that occur in hex text)
LowerChar(c) ==
    CASE c = "A" -> "a" [] c = "B" -> "b" [] c = "C" -> "c" [] c = "D" -> "d"
      [] c = "E" -> "e" [] c = "F" -> "f" [] c = "X" -> "x" [] OTHER -> c

Lower(s) == [k \in 1..Len(s) |-> LowerChar(s[k])]

IsHexChar(c) == \E k \in 1..16 : HexChars[k] = LowerChar(c)

DigitVal(c) == (CHOOSE k \in 1..16 : HexChars[k] = LowerChar(c)) - 1

RECURSIVE DigitsToInt(_, _)
\* the value of a digit string in the given base, most significant first
DigitsToInt(s, base) ==
    IF Len(s) = 0 THEN 0
    ELSE DigitsToInt(SubSeq(s, 1, Len(s) - 1), base) * base + DigitVal(s[Len(s)])

StartsWith(s, p) == Len(s) >= Len(p) /\ SubSeq(s, 1, Len(p)) = p

Drop(s, n) == SubSeq(s, n + 1, Len(s))

\* int(s) for a decimal string: defined when IsDec(s)
IsDec(s) == Len(s) > 0 /\ \A k \in 1..Len(s) : s[k] \in DecChars

DecToInt(s) == DigitsToInt(s, 10)

\* int(s, 16) for "0x.." / "-0x.." text
HexToInt(s) ==
    IF StartsWith(s, <<"-">>)
    THEN 0 - DigitsToInt(Drop(s, 3), 16)
    ELSE DigitsToInt(Drop(s, 2), 16)

RECURSIVE HexDigits(_)
HexDigits(n) ==
    IF n < 16 THEN <<HexChars[n + 1]>>
    ELSE HexDigits(n \div 16) \o <<HexChars[(n % 16) + 1]>>

\* Python's hex(n)
Hex(n) ==
    IF n < 0 THEN <<"-", "0", "x">> \o HexDigits(0 - n)
    ELSE <<"0", "x">> \o HexDigits(n)

RECURSIVE Strip(_)
\* str.strip for blanks
Strip(s) ==
    IF Len(s) > 0 /\ s[1] = " " THEN Strip(Drop(s, 1))
    ELSE IF Len(s) > 0 /\ s[Len(s)] = " " THEN Strip(SubSeq(s, 1, Len(s) - 1))
    ELSE s

RECURSIVE SeqsUpTo(_, _)
\* all sequences over S of length at most n
SeqsUpTo(S, n) ==
    IF n = 0 THEN {<<>>}
    ELSE LET shorter == SeqsUpTo(S, n - 1)
         IN shorter \cup {Append(q, x) : q \in {r \in shorter : Len(r) = n - 1}, x \in S}

\* dict[key] = value
Put(d, key, value) == [k \in DOMAIN d \cup {key} |-> IF k = key THEN value ELSE d[k]]

EmptyDict == [k \in {} |-> 0]

(***************************************************************************)
(* Line Parser: parse_trace_line                                           *)
(*                                                                         *)
(* A text line is given by what the parser's patterns find in it: marker   *)
(* is line.strip().startswith("depth:"), and each field holds the captured *)
(* group of its re.search as a one-element sequence, or <<>> when the      *)
(* pattern does not match.  The stack field holds the Stack:[...] capture  *)
(* already split at the commas.                                            *)
(***************************************************************************)
ParseFails(l) ==
    /\ Len(l.stack) > 0
    /\ \E k \in 1..Len(l.stack[1]) :
          /\ Strip(l.stack[1][k]) # <<>>
          /\ ~IsDec(Strip(l.stack[1][k]))

ParseStack(items) ==
    LET kept == SelectSeq(items, LAMBDA s : Strip(s) # <<>>)
    IN [k \in 1..Len(kept) |-> Hex(DecToInt(Strip(kept[k])))]

\* parse_trace_line, rejecting a line that lacks a field
parse_trace_line_Strict(l) ==
    IF ~l.marker THEN NoneVal
    ELSE IF ParseFails(l) THEN NoneVal
    ELSE IF \E f \in {l.depth, l.pc, l.gas, l.op, l.refund, l.stack, l.size} : Len(f) = 0
    THEN NoneVal
    ELSE [depth |-> DecToInt(l.depth[1]),
          pc |-> DecToInt(l.pc[1]),
          gas |-> l.gas[1],
          op |-> DecToInt(l.op[1]),
          refund |-> HexToInt(l.refund[1]),
          stack |-> ParseStack(l.stack[1]),
          memSize |-> DecToInt(l.size[1])]

parse_trace_line(l) ==
    IF ~l.marker THEN NoneVal
    ELSE IF ParseFails(l) THEN NoneVal
    ELSE [depth |-> IF Len(l.depth) > 0 THEN DecToInt(l.depth[1]) ELSE 1,
          pc |-> IF Len(l.pc) > 0 THEN DecToInt(l.pc[1]) ELSE 0,
          gas |-> IF Len(l.gas) > 0 THEN l.gas[1] ELSE <<"0", "x", "0">>,
          op |-> IF Len(l.op) > 0 THEN DecToInt(l.op[1]) ELSE 0,
          refund |-> IF Len(l.refund) > 0 THEN HexToInt(l.refund[1]) ELSE 0,
          stack |-> IF Len(l.stack) > 0 THEN ParseStack(l.stack[1]) ELSE <<>>,
          memSize |-> IF Len(l.size) > 0 THEN DecToInt(l.size[1]) ELSE 0]

(***************************************************************************)
(* Arena Walker: build_gas_lookup_from_arena                               *)
(***************************************************************************)
Fingerprint(step) == <<step.depth, step.pc, step.op, step.stack>>

RECURSIVE IndexSteps_FirstWins(_, _)
\* the inner loop keeping the first entry of a fingerprint
IndexSteps_FirstWins(lookup, steps) ==
    IF steps = <<>> THEN lookup
    ELSE IndexSteps_FirstWins(
             IF Fingerprint(Head(steps)) \in DOMAIN lookup.gas THEN lookup
             ELSE [gas |-> Put(lookup.gas, Fingerprint(Head(steps)), Head(steps).gas_remaining),
                   cost |-> Put(lookup.cost, Fingerprint(Head(steps)), Head(steps).gas_cost)],
             Tail(steps))

RECURSIVE IndexSteps(_, _)
\* the inner loop: one insertion per step, a later one overwriting
IndexSteps(lookup, steps) ==
    IF steps = <<>> THEN lookup
    ELSE IndexSteps([gas |-> Put(lookup.gas, Fingerprint(Head(steps)), Head(steps).gas_remaining),
                     cost |-> Put(lookup.cost, Fingerprint(Head(steps)), Head(steps).gas_cost)],
                    Tail(steps))

RECURSIVE IndexNodes(_, _)
\* the outer loop: a node without a trace is skipped
IndexNodes(lookup, nodes) ==
    IF nodes = <<>> THEN lookup
    ELSE IndexNodes(IF Head(nodes).trace = NoneVal THEN lookup
                    ELSE IndexSteps(lookup, Head(nodes).trace.steps),
                    Tail(nodes))

build_gas_lookup_from_arena(nodes) ==
    IndexNodes([gas |-> EmptyDict, cost |-> EmptyDict], nodes)

\* "if arena:" is false for None and for the empty list
ArenaLookup(a) ==
    IF a = NoneVal \/ a.nodes = <<>> THEN [gas |-> EmptyDict, cost |-> EmptyDict]
    ELSE build_gas_lookup_from_arena(a.nodes)

(***************************************************************************)
(* Gas Reconciler: convert_trace_lines_to_eip3155                          *)
(***************************************************************************)
\* CurrentGas, correcting wherever the fingerprint is indexed
CurrentGas_AnyHit(steps, i, gasAt) ==
    IF Fingerprint(steps[i]) \in DOMAIN gasAt
    THEN gasAt[Fingerprint(steps[i])]
    ELSE HexToInt(steps[i].gas)

\* CurrentGas, testing for a depth increase
CurrentGas_DepthUp(steps, i, gasAt) ==
    IF /\ i > 1
       /\ steps[i].depth > steps[i - 1].depth
       /\ Fingerprint(steps[i]) \in DOMAIN gasAt
    THEN gasAt[Fingerprint(steps[i])]
    ELSE HexToInt(steps[i].gas)

\* CurrentGas, reading a missing entry as 0 after a depth decrease
CurrentGas_MissZero(steps, i, gasAt) ==
    IF i > 1 /\ steps[i].depth < steps[i - 1].depth
    THEN IF Fingerprint(steps[i]) \in DOMAIN gasAt THEN gasAt[Fingerprint(steps[i])] ELSE 0
    ELSE HexToInt(steps[i].gas)

\* current_gas of step i: the text gas, or the arena's after a depth decrease
CurrentGas(steps, i, gasAt) ==
    IF /\ i > 1
       /\ steps[i].depth < steps[i - 1].depth
       /\ Fingerprint(steps[i]) \in DOMAIN gasAt
    THEN gasAt[Fingerprint(steps[i])]
    ELSE HexToInt(steps[i].gas)

\* next_gas read from the text alone
NextGas_Uncorrected(steps, i, gasAt) == HexToInt(steps[i + 1].gas)

\* next_gas as the cost computation of step i reads it
NextGas(steps, i, gasAt) ==
    IF /\ steps[i + 1].depth < steps[i].depth
       /\ Fingerprint(steps[i + 1]) \in DOMAIN gasAt
    THEN gasAt[Fingerprint(steps[i + 1])]
    ELSE HexToInt(steps[i + 1].gas)

\* GasCost without the arena's gas_cost: always the difference
GasCost_NoArenaCost(steps, i, gasAt, costAt) ==
    IF i + 1 <= Len(steps)
    THEN CurrentGas(steps, i, gasAt) - NextGas(steps, i, gasAt)
    ELSE 0

\* GasCost, the last step taking the arena's gas_cost when it is indexed
GasCost_LastFromArena(steps, i, gasAt, costAt) ==
    LET has_depth_decrease == i + 1 <= Len(steps) /\ steps[i + 1].depth < steps[i].depth
    IN IF has_depth_decrease /\ Fingerprint(steps[i]) \in DOMAIN costAt
       THEN costAt[Fingerprint(steps[i])]
       ELSE IF i + 1 <= Len(steps)
       THEN CurrentGas(steps, i, gasAt) - NextGas(steps, i, gasAt)
       ELSE IF Fingerprint(steps[i]) \in DOMAIN costAt
       THEN costAt[Fingerprint(steps[i])]
       ELSE 0

\* GasCost, taking the difference from the uncorrected text gas
GasCost_TextGas(steps, i, gasAt, costAt) ==
    LET has_depth_decrease == i + 1 <= Len(steps) /\ steps[i + 1].depth < steps[i].depth
    IN IF has_depth_decrease /\ Fingerprint(steps[i]) \in DOMAIN costAt
       THEN costAt[Fingerprint(steps[i])]
       ELSE IF i + 1 <= Len(steps)
       THEN HexToInt(steps[i].gas) - NextGas(steps, i, gasAt)
       ELSE 0

GasCost(steps, i, gasAt, costAt) ==
    LET has_depth_decrease == i + 1 <= Len(steps) /\ steps[i + 1].depth < steps[i].depth
    IN IF has_depth_decrease /\ Fingerprint(steps[i]) \in DOMAIN costAt
       THEN costAt[Fingerprint(steps[i])]
       ELSE IF i + 1 <= Len(steps)
       THEN CurrentGas(steps, i, gasAt) - NextGas(steps, i, gasAt)
       ELSE 0

Eip3155Step(steps, i, gasAt, costAt) ==
    [pc |-> steps[i].pc,
     op |-> steps[i].op,
     gas |-> Hex(CurrentGas(steps, i, gasAt)),
     gasCost |-> Hex(GasCost(steps, i, gasAt, costAt)),
     memSize |-> steps[i].memSize,
     stack |-> steps[i].stack,
     depth |-> steps[i].depth,
     refund |-> steps[i].refund]

(***************************************************************************)
(* Inputs of the reconciler                                                *)
(***************************************************************************)
MaxLines == 3

S(t) == <<t>>

TextLine(depth, pc, gas, op, refund, stack, size) ==
    [marker |-> TRUE, depth |-> depth, pc |-> pc, gas |-> gas, op |-> op,
     refund |-> refund, stack |-> stack, size |-> size]

\* depth:1, PC:0, gas:0x5(..), OPCODE: "PUSH1"(96)  refund:0x0(0) Stack:[], Data size:0
LineA5 == TextLine(S(<<"1">>), S(<<"0">>), S(<<"0", "x", "5">>), S(<<"9", "6">>),
                   S(<<"0", "x", "0">>), S(<<>>), S(<<"0">>))
\* the same step with gas:0x09
LineA9 == [LineA5 EXCEPT !.gas = S(<<"0", "x", "0", "9">>)]
\* depth:2, PC:1, gas:0x5, OPCODE: "RETURN"(243)  refund:0x2 Stack:[1], Data size:32
LineB5 == TextLine(S(<<"2">>), S(<<"1">>), S(<<"0", "x", "5">>), S(<<"2", "4", "3">>),
                   S(<<"0", "x", "2">>), S(<<<<"1">>>>), S(<<"3", "2">>))
\* the same step with gas:0x1C
LineB28 == [LineB5 EXCEPT !.gas = S(<<"0", "x", "1", "C">>)]
\* depth:1, PC:2, gas:0x7, OPCODE: "POP"(80) Stack:[10, 1]
LineC7 == TextLine(S(<<"1">>), S(<<"2">>), S(<<"0", "x", "7">>), S(<<"8", "0">>),
                   S(<<"0", "x", "0">>), S(<<<<"1", "0">>, <<" ", "1">>>>), S(<<"0">>))
\* a diagnostic line of the tool's output
LineNoise == [marker |-> FALSE, depth |-> <<>>, pc |-> <<>>, gas |-> <<>>, op |-> <<>>,
              refund |-> <<>>, stack |-> <<>>, size |-> <<>>]
\* "depth:2, PC:1" and nothing else
LineShort == [LineNoise EXCEPT !.marker = TRUE, !.depth = S(<<"2">>), !.pc = S(<<"1">>)]
\* a stack item that is no decimal number
LineBadStack == [LineA5 EXCEPT !.stack = S(<<<<"0", "x", "1">>>>)]

GasLines == {LineA5, LineA9, LineB5, LineB28, LineC7, LineNoise, LineShort, LineBadStack}

ArenaStep(depth, pc, op, stack, gas_remaining, gas_cost) ==
    [depth |-> depth, pc |-> pc, op |-> op, stack |-> stack,
     gas_remaining |-> gas_remaining, gas_cost |-> gas_cost]

Node(steps) == [trace |-> [steps |-> steps]]

StackB == <<<<"0", "x", "1">>>>

GasArenas ==
    {NoneVal,
     [nodes |-> <<>>],
     [nodes |-> <<[trace |-> NoneVal]>>],
     [nodes |-> <<Node(<<ArenaStep(1, 0, 96, <<>>, 9, 2)>>)>>],
     [nodes |-> <<Node(<<ArenaStep(1, 0, 96, <<>>, 7, 1), ArenaStep(2, 1, 243, StackB, 5, 3)>>),
                  Node(<<ArenaStep(1, 0, 96, <<>>, 12, 4)>>)>>]}

(***************************************************************************)
(* The reconciler as a state machine                                       *)
(***************************************************************************)
LineIdle == line = LineNoise /\ parsed = NoneVal /\ lpc = "idle"

CmpIdle ==
    /\ file1 = <<>> /\ file2 = <<>> /\ no_gas = FALSE /\ traces1 = <<>> /\ traces2 = <<>>
    /\ ci = 0 /\ all_match = TRUE /\ gas_mismatch_count = 0 /\ reported = -1
    /\ result = -1 /\ cpc = "idle"

PreIdle ==
    /\ trace_list = <<>> /\ address_list = {} /\ storage_dict = EmptyDict
    /\ second_dict = EmptyDict /\ pending = {} /\ failed = {}
    /\ pre_dict = EmptyDict /\ ppc = "idle"

GasIdle ==
    /\ trace_lines = <<>> /\ arena = NoneVal
    /\ arena_gas = EmptyDict /\ arena_gas_cost = EmptyDict
    /\ parsed_steps = <<>> /\ eip3155_steps = <<>> /\ gpc = "idle" /\ gi = 0

NormIdle ==
    /\ value1 = NoneVal /\ value2 = NoneVal
    /\ normalized1 = NoneVal /\ normalized2 = NoneVal /\ npc = "idle"

StatIdle == numbers = <<>> /\ stats = NoneVal /\ spc = "idle"

TxIdle ==
    /\ cast_lines = <<>> /\ cast_json = NoneVal /\ env_info = NoneVal
    /\ tx_trace_lines = <<>> /\ tx_arena = NoneVal
    /\ tx_stats = NoneVal /\ files = <<>> /\ txpc = "idle"

BatchIdle ==
    /\ entry_point = "idle" /\ tx_list = <<>> /\ max_attempts = 0 /\ bi = 0 /\ attempts = 0
    /\ successful = 0 /\ invocations = <<>> /\ batch_stats = NoneVal /\ bpc = "idle"

OtherIdle == NormIdle /\ StatIdle /\ TxIdle /\ BatchIdle

InitGas ==
    /\ trace_lines \in SeqsUpTo(GasLines, MaxLines)
    /\ arena \in GasArenas
    /\ arena_gas = EmptyDict /\ arena_gas_cost = EmptyDict
    /\ parsed_steps = <<>> /\ eip3155_steps = <<>>
    /\ gpc = "lookup" /\ gi = 0
    /\ LineIdle /\ PreIdle /\ CmpIdle /\ OtherIdle

\* lines 122-126
BuildLookup ==
    /\ gpc = "lookup"
    /\ arena_gas' = ArenaLookup(arena).gas
    /\ arena_gas_cost' = ArenaLookup(arena).cost
    /\ gpc' = IF trace_lines = <<>> THEN "done" ELSE "parse"
    /\ UNCHANGED <<trace_lines, arena, parsed_steps, eip3155_steps, gi, lineVars, preVars, cmpVars, normVars, statVars, txVars, batchVars>>

\* one iteration of the first pass
ParseLine ==
    /\ gpc = "parse"
    /\ gi < Len(trace_lines)
    /\ LET step == parse_trace_line(trace_lines[gi + 1])
           kept == IF step # NoneVal THEN Append(parsed_steps, step) ELSE parsed_steps
       IN /\ parsed_steps' = kept
          /\ gi' = gi + 1
          /\ gpc' = IF gi + 1 < Len(trace_lines) THEN "parse"
                    ELSE IF kept = <<>> THEN "done" ELSE "build"
    /\ UNCHANGED <<trace_lines, arena, arena_gas, arena_gas_cost, eip3155_steps, lineVars, preVars, cmpVars, normVars, statVars, txVars, batchVars>>

\* BuildStep, the second pass stopping one step early
BuildStep_SkipLast ==
    /\ gpc = "build"
    /\ Len(eip3155_steps) < Len(parsed_steps)
    /\ LET i == Len(eip3155_steps) + 1
       IN /\ eip3155_steps' = Append(eip3155_steps,
                                     Eip3155Step(parsed_steps, i, arena_gas, arena_gas_cost))
          /\ gpc' = IF i + 1 < Len(parsed_steps) THEN "build" ELSE "done"
    /\ UNCHANGED <<trace_lines, arena, arena_gas, arena_gas_cost, parsed_steps, gi, lineVars, preVars, cmpVars, normVars, statVars, txVars, batchVars>>

\* one iteration of the second pass
BuildStep ==
    /\ gpc = "build"
    /\ Len(eip3155_steps) < Len(parsed_steps)
    /\ LET i == Len(eip3155_steps) + 1
       IN /\ eip3155_steps' = Append(eip3155_steps,
                                     Eip3155Step(parsed_steps, i, arena_gas, arena_gas_cost))
          /\ gpc' = IF i < Len(parsed_steps) THEN "build" ELSE "done"
    /\ UNCHANGED <<trace_lines, arena, arena_gas, arena_gas_cost, parsed_steps, gi, lineVars, preVars, cmpVars, normVars, statVars, txVars, batchVars>>

NextGasRun == BuildLookup \/ ParseLine \/ BuildStep

SpecGas == InitGas /\ [][NextGasRun]_vars

(***************************************************************************)
(* The line parser on its own                                              *)
(***************************************************************************)
Opt(v) == {<<>>, S(v)}

ParserLines ==
    {[marker |-> m, depth |-> d, pc |-> p, gas |-> g, op |-> o, refund |-> r,
      stack |-> st, size |-> z] :
        m \in BOOLEAN,
        d \in {<<>>, S(<<"1">>), S(<<"2">>)},
        p \in Opt(<<"7">>),
        g \in Opt(<<"0", "x", "8", "9", "f", "5">>),
        o \in Opt(<<"9", "6">>),
        r \in Opt(<<"0", "x", "1", "0">>),
        st \in {<<>>, S(<<>>), S(<<<<"1", "0">>, <<" ", "3">>>>), S(<<<<"0", "x", "1">>>>)},
        z \in Opt(<<"3", "2">>)}

InitLine ==
    /\ line \in ParserLines
    /\ parsed = NoneVal
    /\ lpc = "start"
    /\ GasIdle /\ PreIdle /\ CmpIdle /\ OtherIdle

Parse ==
    /\ lpc = "start"
    /\ parsed' = parse_trace_line(line)
    /\ lpc' = "done"
    /\ UNCHANGED <<line, gasVars, preVars, cmpVars, normVars, statVars, txVars, batchVars>>

NextLine == Parse

SpecLine == InitLine /\ [][NextLine]_vars

(***************************************************************************)
(* Helpers of utils/tools.py                                               *)
(***************************************************************************)
\* make_hex_even on a "0x.." string
make_hex_even(value) ==
    LET hex_value == Drop(value, 2)
    IN IF Len(hex_value) % 2 # 0
       THEN <<"0", "x", "0">> \o hex_value
       ELSE <<"0", "x">> \o hex_value

Contains(list, value) == \E k \in 1..Len(list) : list[k] = value

\* a dict of lists: append unless the list holds the value already
add_to_dict(input_dict, key, value) ==
    IF key \notin DOMAIN input_dict THEN Put(input_dict, key, <<value>>)
    ELSE IF Contains(input_dict[key], value) THEN input_dict
    ELSE Put(input_dict, key, Append(input_dict[key], value))

\* list(set(list1 + list2)): the order of the result is unspecified, so
\* address lists are sets
strict_extend(list1, list2) == list1 \cup list2

\* a dict of dicts: an existing inner key keeps its value
extend_dict(input_dict, key, value_dict) ==
    IF key \notin DOMAIN input_dict THEN Put(input_dict, key, value_dict)
    ELSE Put(input_dict, key,
             [v_key \in DOMAIN input_dict[key] \cup DOMAIN value_dict |->
                 IF v_key \in DOMAIN input_dict[key] THEN input_dict[key][v_key]
                 ELSE value_dict[v_key]])

(***************************************************************************)
(* Pre-State Walker: collect_state_changes, collect_from_steps             *)
(***************************************************************************)
AddressLen == 42

UpperChar(c) ==
    CASE c = "a" -> "A" [] c = "b" -> "B" [] c = "c" -> "C" [] c = "d" -> "D"
      [] c = "e" -> "E" [] c = "f" -> "F" [] c = "x" -> "X" [] OTHER -> c

Upper(s) == [k \in 1..Len(s) |-> UpperChar(s[k])]

\* hex(step["op"])[2:].upper()
OpCode(op) == Upper(Drop(Hex(op), 2))

\* the call opcodes with SSTORE among them
CallOps_WithStore == {<<"F", "1">>, <<"F", "2">>, <<"F", "4">>, <<"F", "A">>, <<"5", "5">>}

CallOps == {<<"F", "1">>, <<"F", "2">>, <<"F", "4">>, <<"F", "A">>}

StorageOps == {<<"5", "4">>, <<"5", "5">>}

is_address(evm_str) == StartsWith(evm_str, <<"0", "x">>) /\ Len(evm_str) = AddressLen

find_address_in_list(stack_list) ==
    {stack_list[k] : k \in {j \in 1..Len(stack_list) : is_address(stack_list[j])}}

Last(q) == q[Len(q)]

RECURSIVE WalkSteps(_, _, _)
\* the loop of collect_state_changes from step k on; raised stands for the
\* IndexError of [-1] on an empty stack
WalkSteps(steps, k, acc) ==
    IF k > Len(steps) THEN acc
    ELSE LET step == steps[k]
             op_code == OpCode(step.op)
             infers == op_code \in StorageOps /\ k # Len(steps)
         IN IF infers /\ (Len(step.stack) = 0 \/ Len(steps[k + 1].stack) = 0)
            THEN [acc EXCEPT !.raised = TRUE]
            ELSE WalkSteps(steps, k + 1,
                   [address_list |->
                        IF op_code \in CallOps
                        THEN strict_extend(strict_extend(acc.address_list, {step.contract}),
                                           find_address_in_list(step.stack))
                        ELSE strict_extend(acc.address_list, {step.contract}),
                    storage_change_dict |->
                        IF step.storage_change # NoneVal
                        THEN add_to_dict(acc.storage_change_dict, step.contract,
                                         step.storage_change)
                        ELSE acc.storage_change_dict,
                    second_storage_dict |->
                        IF infers
                        THEN add_to_dict(acc.second_storage_dict, step.contract,
                                         <<Last(step.stack), Last(steps[k + 1].stack)>>)
                        ELSE acc.second_storage_dict,
                    raised |-> FALSE])

collect_state_changes(steps) ==
    WalkSteps(steps, 1, [address_list |-> {}, storage_change_dict |-> EmptyDict,
                         second_storage_dict |-> EmptyDict, raised |-> FALSE])

RECURSIVE AddAll(_, _, _)
\* add_to_dict for every value of a list, in order
AddAll(d, key, values) ==
    IF values = <<>> THEN d
    ELSE AddAll(add_to_dict(d, key, Head(values)), key, Tail(values))

RECURSIVE AddAllKeys(_, _, _)
\* the loop over the keys of a node's second_storage_dict; the keys are
\* distinct contracts, so the order of the keys does not show in the result
AddAllKeys(d, keys, second_storage_dict) ==
    IF keys = {} THEN d
    ELSE LET key == CHOOSE x \in keys : TRUE
         IN AddAllKeys(AddAll(d, key, second_storage_dict[key]), keys \ {key},
                       second_storage_dict)

RECURSIVE AllKeysFrom(_, _)
\* the loop of get_all_keys: a key already present keeps its value
AllKeysFrom(key_dict, storage_list) ==
    IF storage_list = <<>> THEN key_dict
    ELSE LET storage_change == Head(storage_list)
             even == make_hex_even(storage_change.key)
         IN AllKeysFrom(IF even \notin DOMAIN key_dict
                        THEN Put(key_dict, even, make_hex_even(storage_change.had_value))
                        ELSE key_dict,
                        Tail(storage_list))

RECURSIVE AllKeysFrom_LastWins(_, _)
\* the loop of get_all_keys without the "not in key_dict" test
AllKeysFrom_LastWins(key_dict, storage_list) ==
    IF storage_list = <<>> THEN key_dict
    ELSE LET storage_change == Head(storage_list)
             even == make_hex_even(storage_change.key)
         IN AllKeysFrom_LastWins(Put(key_dict, even, make_hex_even(storage_change.had_value)),
                                 Tail(storage_list))

\* get_all_keys, a later change of a slot replacing an earlier one
get_all_keys_LastWins(storage_list) == AllKeysFrom_LastWins(EmptyDict, storage_list)

get_all_keys(storage_list) == AllKeysFrom(EmptyDict, storage_list)

RECURSIVE ExtendAddresses(_, _, _)
\* the inner loop of get_storage_keys over the addresses of one node
ExtendAddresses(sd, addresses, address_storage_dict) ==
    IF addresses = {} THEN sd
    ELSE LET address == CHOOSE x \in addresses : TRUE
         IN ExtendAddresses(extend_dict(sd, address, get_all_keys(address_storage_dict[address])),
                            addresses \ {address}, address_storage_dict)

RECURSIVE StorageKeysFrom(_, _, _)
\* the outer loop of get_storage_keys, over the nodes in insertion order
StorageKeysFrom(sd, trace_storage_dict, k) ==
    IF k > Len(trace_storage_dict) THEN sd
    ELSE StorageKeysFrom(ExtendAddresses(sd, DOMAIN trace_storage_dict[k], trace_storage_dict[k]),
                         trace_storage_dict, k + 1)

get_storage_keys(trace_storage_dict) == StorageKeysFrom(EmptyDict, trace_storage_dict, 1)

collect_address(trace_address_dict) ==
    UNION {trace_address_dict[k] : k \in 1..Len(trace_address_dict)}

RECURSIVE WalkNodes(_, _, _)
\* the loop of collect_from_steps; a node's idx is its position in the arena
WalkNodes(json_output, k, acc) ==
    IF k > Len(json_output) THEN acc
    ELSE LET new_trace == json_output[k].trace
             got == collect_state_changes(new_trace.steps)
         IN IF got.raised THEN [acc EXCEPT !.raised = TRUE]
            ELSE WalkNodes(json_output, k + 1,
                   [trace_address_dict |->
                        Append(acc.trace_address_dict,
                               strict_extend(got.address_list,
                                             {Lower(new_trace.caller), Lower(new_trace.address)})),
                    trace_storage_dict |-> Append(acc.trace_storage_dict, got.storage_change_dict),
                    second_dict |-> AddAllKeys(acc.second_dict, DOMAIN got.second_storage_dict,
                                               got.second_storage_dict),
                    raised |-> FALSE])

collect_from_steps(json_output) ==
    LET got == WalkNodes(json_output, 1,
                         [trace_address_dict |-> <<>>, trace_storage_dict |-> <<>>,
                          second_dict |-> EmptyDict, raised |-> FALSE])
    IN [address_list |-> collect_address(got.trace_address_dict),
        storage_dict |-> get_storage_keys(got.trace_storage_dict),
        second_dict |-> got.second_dict,
        raised |-> got.raised]

(***************************************************************************)
(* Account State Resolver: retrieve_*, collect_pre                         *)
(***************************************************************************)
Repeat(c, n) == [k \in 1..n |-> c]

AddrA == <<"0", "x">> \o Repeat("a", 40)

AddrAMixed == <<"0", "x">> \o Repeat("A", 20) \o Repeat("a", 20)

AddrB == <<"0", "x">> \o Repeat("b", 40)

\* the chain at block_number - 1: get_balance and get_transaction_count
\* return integers, get_code returns bytes (given by their hex digits)
ChainBalance(address) == IF Lower(address) = AddrA THEN 0 ELSE 256

ChainNonce(address) == IF Lower(address) = AddrA THEN 10 ELSE 1

ChainCode(address) == IF Lower(address) = AddrA THEN <<"6", "0", "0", "1">> ELSE <<>>

retrieve_balance(ok, contract_address) ==
    IF ok THEN make_hex_even(Hex(ChainBalance(contract_address))) ELSE <<"0", "x", "0", "0">>

\* retrieve_nonce, a failed read giving nonce 0
retrieve_nonce_ZeroDefault(ok, contract_address) ==
    IF ok THEN make_hex_even(Hex(ChainNonce(contract_address))) ELSE <<"0", "x", "0", "0">>

retrieve_nonce(ok, contract_address) ==
    IF ok THEN make_hex_even(Hex(ChainNonce(contract_address))) ELSE <<"0", "x", "0", "1">>

retrieve_code(ok, contract_address) ==
    IF ok THEN <<"0", "x">> \o ChainCode(contract_address) ELSE <<"0", "x">>

\* the reads whose except branch ran
ReadFailed(ok, address, field) == IF ok THEN {} ELSE {<<address, field>>}

RECURSIVE FillInferred_Overwrite(_, _)
\* FillInferred without the test of line 165: every observation is stored
FillInferred_Overwrite(storage, kv_pairs) ==
    IF kv_pairs = <<>> THEN storage
    ELSE FillInferred_Overwrite(Put(storage, make_hex_even(Head(kv_pairs)[1]),
                                    make_hex_even(Head(kv_pairs)[2])),
                                Tail(kv_pairs))

RECURSIVE FillInferred(_, _)
\* lines 161-167: an inferred observation fills a slot the storage lacks
FillInferred(storage, kv_pairs) ==
    IF kv_pairs = <<>> THEN storage
    ELSE LET even_key == make_hex_even(Head(kv_pairs)[1])
         IN FillInferred(IF even_key \notin DOMAIN storage
                         THEN Put(storage, even_key, make_hex_even(Head(kv_pairs)[2]))
                         ELSE storage,
                         Tail(kv_pairs))

\* line 170: "remove zero values"
RemoveZeroValues(storage) ==
    [k \in {x \in DOMAIN storage : storage[x] # <<"0", "x", "0", "0">>} |-> storage[k]]

(***************************************************************************)
(* Inputs of collect_pre: the arena that cast_trace_run returns            *)
(***************************************************************************)
MaxSteps == 3

PreStep(contract, op, stack, storage_change) ==
    [contract |-> contract, op |-> op, stack |-> stack, storage_change |-> storage_change]

Change(key, had_value) == [key |-> key, had_value |-> had_value]

Slot1 == <<"0", "x", "1">>

Slot2 == <<"0", "x", "2">>

\* SSTORE by A of slot 0x1, which held 0x5
StepStore5 == PreStep(AddrA, 85, <<Slot1>>, Change(Slot1, <<"0", "x", "5">>))
\* SSTORE by A of the same slot written 0x01, which held 0x0000
StepStoreZeros == PreStep(AddrA, 85, <<Slot1>>,
                          Change(<<"0", "x", "0", "1">>, <<"0", "x", "0", "0", "0", "0">>))
\* SLOAD by A of slot 0x2, no storage_change
StepLoad == PreStep(AddrA, 84, <<Slot2>>, NoneVal)
\* ADD by B with 0x0 on top of the stack; its storage_change held 0x0
StepZero == PreStep(AddrB, 1, <<Slot2, <<"0", "x", "0">>>>, Change(Slot1, <<"0", "x", "0">>))

PreSteps == {StepStore5, StepStoreZeros, StepLoad, StepZero}

CallNode(steps) == [trace |-> [steps |-> steps, caller |-> AddrAMixed, address |-> AddrB]]

PreArenas ==
    LET seqs == SeqsUpTo(PreSteps, MaxSteps)
    IN {<<>>} \cup {<<CallNode(q)>> : q \in seqs}
         \cup UNION {{<<CallNode(q1), CallNode(q2)>> :
                         q2 \in {q \in seqs : Len(q1) + Len(q) <= MaxSteps}} : q1 \in seqs}

(***************************************************************************)
(* collect_pre as a state machine                                          *)
(***************************************************************************)
InitPre ==
    /\ trace_list \in PreArenas
    /\ address_list = {} /\ storage_dict = EmptyDict /\ second_dict = EmptyDict
    /\ pending = {} /\ failed = {} /\ pre_dict = EmptyDict
    /\ ppc = "walk"
    /\ GasIdle /\ LineIdle /\ CmpIdle /\ OtherIdle

\* line 139
CollectFromSteps ==
    /\ ppc = "walk"
    /\ LET got == collect_from_steps(trace_list)
       IN IF got.raised
          THEN /\ ppc' = "raised"
               /\ UNCHANGED <<address_list, storage_dict, second_dict, pending>>
          ELSE /\ address_list' = got.address_list
               /\ storage_dict' = got.storage_dict
               /\ second_dict' = got.second_dict
               /\ pending' = got.address_list
               /\ ppc' = IF got.address_list = {} THEN "done" ELSE "resolve"
    /\ UNCHANGED <<trace_list, failed, pre_dict, gasVars, lineVars, cmpVars, normVars, statVars, txVars, batchVars>>

\* the loop body with storage never reset to {}: an address the walk found
\* no storage for starts from the storage of an entry written before it
ResolveAddress_SharedStorage ==
    /\ ppc = "resolve"
    /\ \E address \in pending, okBalance \in BOOLEAN, okNonce \in BOOLEAN, okCode \in BOOLEAN :
          LET storage == IF address \in DOMAIN storage_dict THEN storage_dict[address]
                         ELSE IF DOMAIN pre_dict = {} THEN EmptyDict
                         ELSE pre_dict[CHOOSE a \in DOMAIN pre_dict : TRUE].storage
              filled == IF address \in DOMAIN second_dict
                        THEN FillInferred(storage, second_dict[address])
                        ELSE storage
          IN /\ pre_dict' = Put(pre_dict, address,
                                [balance |-> retrieve_balance(okBalance, address),
                                 nonce |-> retrieve_nonce(okNonce, address),
                                 code |-> retrieve_code(okCode, address),
                                 storage |-> RemoveZeroValues(filled)])
             /\ storage_dict' = IF address \in DOMAIN storage_dict
                                THEN Put(storage_dict, address, filled)
                                ELSE storage_dict
             /\ failed' = failed \cup ReadFailed(okBalance, address, "balance")
                                 \cup ReadFailed(okNonce, address, "nonce")
                                 \cup ReadFailed(okCode, address, "code")
             /\ pending' = pending \ {address}
             /\ ppc' = IF pending = {address} THEN "done" ELSE "resolve"
    /\ UNCHANGED <<trace_list, address_list, second_dict, gasVars, lineVars, cmpVars, normVars, statVars, txVars, batchVars>>

\* the body of the loop of lines 148-173 for one address, given which of
\* its three reads succeed.  The checksum form of line 155 names the same
\* account: the chain is read by the address whatever its letter case.
ResolveWith(address, okBalance, okNonce, okCode) ==
    LET storage == IF address \in DOMAIN storage_dict THEN storage_dict[address]
                   ELSE EmptyDict
        filled == IF address \in DOMAIN second_dict
                  THEN FillInferred(storage, second_dict[address])
                  ELSE storage
    IN /\ pre_dict' = Put(pre_dict, address,
                          [balance |-> retrieve_balance(okBalance, address),
                           nonce |-> retrieve_nonce(okNonce, address),
                           code |-> retrieve_code(okCode, address),
                           storage |-> RemoveZeroValues(filled)])
       \* storage aliases storage_dict[address] while it is filled
       /\ storage_dict' = IF address \in DOMAIN storage_dict
                          THEN Put(storage_dict, address, filled)
                          ELSE storage_dict
       /\ failed' = failed \cup ReadFailed(okBalance, address, "balance")
                           \cup ReadFailed(okNonce, address, "nonce")
                           \cup ReadFailed(okCode, address, "code")
       /\ pending' = pending \ {address}
       /\ ppc' = IF pending = {address} THEN "done" ELSE "resolve"

\* one iteration of the loop, for any address of the list not yet visited,
\* each of its three reads succeeding or failing
ResolveAddress ==
    /\ ppc = "resolve"
    /\ \E address \in pending, okBalance \in BOOLEAN, okNonce \in BOOLEAN, okCode \in BOOLEAN :
          ResolveWith(address, okBalance, okNonce, okCode)
    /\ UNCHANGED <<trace_list, address_list, second_dict, gasVars, lineVars, cmpVars, normVars, statVars, txVars, batchVars>>

NextPre == CollectFromSteps \/ ResolveAddress

SpecPre == InitPre /\ [][NextPre]_vars

(***************************************************************************)
(* collect_pre over more kinds of steps, against an endpoint that answers  *)
(* every read                                                              *)
(***************************************************************************)
AddrC == <<"0", "x">> \o Repeat("c", 40)

\* slot 0x1 written with leading zeros
SlotWide == <<"0", "x", "0", "0", "0", "1">>

\* SSTORE by A of slot 0x0001, which held 0x7, with C below the top of the stack
StepStoreWide == PreStep(AddrA, 85, <<AddrC, SlotWide>>, Change(SlotWide, <<"0", "x", "7">>))
\* SSTORE by A of slot 0x2, which held 0x0
StepStoreNil == PreStep(AddrA, 85, <<Slot2>>, Change(Slot2, <<"0", "x", "0">>))
\* STOP by B on an empty stack
StepEmpty == PreStep(AddrB, 0, <<>>, NoneVal)
\* CALL by B with C on the stack
StepCall == PreStep(AddrB, 241, <<AddrC, Slot2>>, NoneVal)

WalkerSteps ==
    {StepStore5, StepLoad, StepZero, StepStoreWide, StepStoreNil, StepEmpty, StepCall}

\* arenas of up to two call nodes with up to MaxSteps steps in all
ArenasOf(step_set) ==
    LET seqs == SeqsUpTo(step_set, MaxSteps)
    IN {<<>>} \cup {<<CallNode(q)>> : q \in seqs}
         \cup UNION {{<<CallNode(q1), CallNode(q2)>> :
                         q2 \in {q \in seqs : Len(q1) + Len(q) <= MaxSteps}} : q1 \in seqs}

InitWalk ==
    /\ trace_list \in ArenasOf(WalkerSteps)
    /\ address_list = {} /\ storage_dict = EmptyDict /\ second_dict = EmptyDict
    /\ pending = {} /\ failed = {} /\ pre_dict = EmptyDict
    /\ ppc = "walk"
    /\ GasIdle /\ LineIdle /\ CmpIdle /\ OtherIdle

\* one iteration of the loop of collect_pre, all three reads answered
ResolveAnswered ==
    /\ ppc = "resolve"
    /\ \E address \in pending : ResolveWith(address, TRUE, TRUE, TRUE)
    /\ UNCHANGED <<trace_list, address_list, second_dict, gasVars, lineVars, cmpVars, normVars, statVars, txVars, batchVars>>

NextWalk == CollectFromSteps \/ ResolveAnswered

SpecWalk == InitWalk /\ [][NextWalk]_vars

(***************************************************************************)
(* Trace comparator: utils/compare_traces.py                               *)
(*                                                                         *)
(* A JSON value is an integer [int |-> n] or a string [str |-> s].  A step *)
(* object is a record of the keys it has.  A line of a trace file is a     *)
(* step object or [junk |-> TRUE], a line that json.loads rejects.         *)
(***************************************************************************)
IntV(n) == [int |-> n]

StrV(s) == [str |-> s]

IsStr(value) == DOMAIN value = {"str"}

\* int(value) of a string: decimal digits with blanks around them
IntParses(s) == IsDec(Strip(s))

normalize_value(value) ==
    IF IsStr(value)
    THEN IF StartsWith(value.str, <<"0", "x">>) THEN Lower(value.str)
         ELSE IF IntParses(value.str) THEN Lower(Hex(DecToInt(Strip(value.str))))
         ELSE Lower(value.str)
    ELSE Lower(Hex(value.int))

normalize_stack(stack) == [k \in 1..Len(stack) |-> normalize_value(stack[k])]

\* dict.get(key, default)
Get(obj, key, default) == IF key \in DOMAIN obj THEN obj[key] ELSE default

\* compare_traces, comparing the opcode of trace1 with the pc of trace2
compare_traces_OpWithPc(trace1, trace2, skip_gas) ==
    LET gasDiffers == normalize_value(Get(trace1, "gas", StrV(<<"0", "x", "0">>)))
                         # normalize_value(Get(trace2, "gas", StrV(<<"0", "x", "0">>)))
    IN IF normalize_value(Get(trace1, "pc", IntV(0))) # normalize_value(Get(trace2, "pc", IntV(0)))
       THEN [matches |-> FALSE, error |-> "PC mismatch", gas_mismatch |-> FALSE]
       ELSE IF normalize_value(Get(trace1, "op", IntV(0)))
                  # normalize_value(Get(trace2, "pc", IntV(0)))
       THEN [matches |-> FALSE, error |-> "Opcode mismatch", gas_mismatch |-> FALSE]
       ELSE IF gasDiffers /\ ~skip_gas
       THEN [matches |-> FALSE, error |-> "Gas mismatch", gas_mismatch |-> TRUE]
       ELSE IF normalize_stack(Get(trace1, "stack", <<>>))
                  # normalize_stack(Get(trace2, "stack", <<>>))
       THEN [matches |-> FALSE, error |-> "Stack mismatch", gas_mismatch |-> gasDiffers]
       ELSE [matches |-> TRUE, error |-> "", gas_mismatch |-> gasDiffers]

\* compare_traces, comparing the depth of the two steps as well
compare_traces_WithDepth(trace1, trace2, skip_gas) ==
    LET gasDiffers == normalize_value(Get(trace1, "gas", StrV(<<"0", "x", "0">>)))
                         # normalize_value(Get(trace2, "gas", StrV(<<"0", "x", "0">>)))
    IN IF normalize_value(Get(trace1, "pc", IntV(0))) # normalize_value(Get(trace2, "pc", IntV(0)))
       THEN [matches |-> FALSE, error |-> "PC mismatch", gas_mismatch |-> FALSE]
       ELSE IF normalize_value(Get(trace1, "op", IntV(0)))
                  # normalize_value(Get(trace2, "op", IntV(0)))
       THEN [matches |-> FALSE, error |-> "Opcode mismatch", gas_mismatch |-> FALSE]
       ELSE IF normalize_value(Get(trace1, "depth", IntV(0)))
                  # normalize_value(Get(trace2, "depth", IntV(0)))
       THEN [matches |-> FALSE, error |-> "Depth mismatch", gas_mismatch |-> FALSE]
       ELSE IF gasDiffers /\ ~skip_gas
       THEN [matches |-> FALSE, error |-> "Gas mismatch", gas_mismatch |-> TRUE]
       ELSE IF normalize_stack(Get(trace1, "stack", <<>>))
                  # normalize_stack(Get(trace2, "stack", <<>>))
       THEN [matches |-> FALSE, error |-> "Stack mismatch", gas_mismatch |-> gasDiffers]
       ELSE [matches |-> TRUE, error |-> "", gas_mismatch |-> gasDiffers]

compare_traces(trace1, trace2, skip_gas) ==
    LET gasDiffers == normalize_value(Get(trace1, "gas", StrV(<<"0", "x", "0">>)))
                         # normalize_value(Get(trace2, "gas", StrV(<<"0", "x", "0">>)))
    IN IF normalize_value(Get(trace1, "pc", IntV(0))) # normalize_value(Get(trace2, "pc", IntV(0)))
       THEN [matches |-> FALSE, error |-> "PC mismatch", gas_mismatch |-> FALSE]
       ELSE IF normalize_value(Get(trace1, "op", IntV(0)))
                  # normalize_value(Get(trace2, "op", IntV(0)))
       THEN [matches |-> FALSE, error |-> "Opcode mismatch", gas_mismatch |-> FALSE]
       ELSE IF gasDiffers /\ ~skip_gas
       THEN [matches |-> FALSE, error |-> "Gas mismatch", gas_mismatch |-> TRUE]
       ELSE IF normalize_stack(Get(trace1, "stack", <<>>))
                  # normalize_stack(Get(trace2, "stack", <<>>))
       THEN [matches |-> FALSE, error |-> "Stack mismatch", gas_mismatch |-> gasDiffers]
       ELSE [matches |-> TRUE, error |-> "", gas_mismatch |-> gasDiffers]

\* load_trace: the lines that are objects with "pc" and "op", in order
load_trace(file) ==
    SelectSeq(file, LAMBDA obj : "pc" \in DOMAIN obj /\ "op" \in DOMAIN obj)

Min(a, b) == IF a < b THEN a ELSE b

(***************************************************************************)
(* Inputs of the comparator                                                *)
(***************************************************************************)
MaxTrace == 2

\* {"pc": 0, "op": 96, "gas": "0x5", "gasCost": "0x2", "memSize": 0,
\*  "stack": ["0x1"], "depth": 1, "refund": 0}
ObjA == [pc |-> IntV(0), op |-> IntV(96), gas |-> StrV(<<"0", "x", "5">>),
         gasCost |-> StrV(<<"0", "x", "2">>), memSize |-> IntV(0),
         stack |-> <<StrV(<<"0", "x", "1">>)>>, depth |-> IntV(1), refund |-> IntV(0)]
\* the same step with gas 0x9
ObjAGas9 == [ObjA EXCEPT !.gas = StrV(<<"0", "x", "9">>)]
\* the same step as another tool writes it: "pc": "0", "op": "0x60",
\* "gas": "0X5", "gasCost": "0x3", "memSize": 32, "stack": [1], "depth": 2,
\* "refund": 7, "opName": "PUSH1"
ObjAOther == [pc |-> StrV(<<"0">>), op |-> StrV(<<"0", "x", "6", "0">>),
              gas |-> StrV(<<"0", "X", "5">>), gasCost |-> StrV(<<"0", "x", "3">>),
              memSize |-> IntV(32), stack |-> <<IntV(1)>>, depth |-> IntV(2),
              refund |-> IntV(7), opName |-> StrV(<<"P", "U", "S", "H", "1">>)]
\* the same step with 0x2 on the stack
ObjAStack2 == [ObjA EXCEPT !.stack = <<StrV(<<"0", "x", "2">>)>>]
\* {"pc": 1, "op": 80}: no gas, no stack
ObjBare == [pc |-> IntV(1), op |-> IntV(80)]
\* a line that is no step object
ObjJunk == [junk |-> TRUE]

TraceFileLines == {ObjA, ObjAGas9, ObjAOther, ObjAStack2, ObjBare, ObjJunk}

(***************************************************************************)
(* main of compare_traces.py as a state machine                            *)
(***************************************************************************)
InitCmp ==
    /\ file1 \in SeqsUpTo(TraceFileLines, MaxTrace)
    /\ file2 \in SeqsUpTo(TraceFileLines, MaxTrace)
    /\ no_gas \in BOOLEAN
    /\ traces1 = <<>> /\ traces2 = <<>>
    /\ ci = 0 /\ all_match = TRUE /\ gas_mismatch_count = 0 /\ reported = -1
    /\ result = -1 /\ cpc = "load"
    /\ GasIdle /\ LineIdle /\ PreIdle /\ OtherIdle

\* lines 129-130
LoadTraces ==
    /\ cpc = "load"
    /\ traces1' = load_trace(file1)
    /\ traces2' = load_trace(file2)
    /\ cpc' = "loop"
    /\ UNCHANGED <<file1, file2, no_gas, ci, all_match, gas_mismatch_count, reported, result,
                   gasVars, lineVars, preVars, normVars, statVars, txVars, batchVars>>

\* the loop body without the break: a mismatch is recorded and the loop goes on
CompareStep_NoBreak ==
    /\ cpc = "loop"
    /\ ci < Min(Len(traces1), Len(traces2))
    /\ LET got == compare_traces(traces1[ci + 1], traces2[ci + 1], no_gas)
       IN /\ gas_mismatch_count' = IF got.gas_mismatch THEN gas_mismatch_count + 1
                                   ELSE gas_mismatch_count
          /\ all_match' = IF got.matches THEN all_match ELSE FALSE
          /\ reported' = IF got.matches THEN reported ELSE ci
          /\ cpc' = "loop"
          /\ ci' = ci + 1
    /\ UNCHANGED <<file1, file2, no_gas, traces1, traces2, result, gasVars, lineVars, preVars, normVars, statVars, txVars, batchVars>>

\* one iteration of the loop of lines 151-165; a mismatch breaks out of it
CompareStep ==
    /\ cpc = "loop"
    /\ ci < Min(Len(traces1), Len(traces2))
    /\ LET got == compare_traces(traces1[ci + 1], traces2[ci + 1], no_gas)
       IN /\ gas_mismatch_count' = IF got.gas_mismatch THEN gas_mismatch_count + 1
                                   ELSE gas_mismatch_count
          /\ all_match' = IF got.matches THEN all_match ELSE FALSE
          /\ reported' = IF got.matches THEN reported ELSE ci
          /\ cpc' = IF got.matches THEN "loop" ELSE "report"
          /\ ci' = IF got.matches THEN ci + 1 ELSE ci
    /\ UNCHANGED <<file1, file2, no_gas, traces1, traces2, result, gasVars, lineVars, preVars, normVars, statVars, txVars, batchVars>>

\* lines 167-181, after the loop has ended or was broken out of
Return ==
    /\ \/ cpc = "report"
       \/ cpc = "loop" /\ ci >= Min(Len(traces1), Len(traces2))
    /\ result' = IF all_match /\ Len(traces1) = Len(traces2) THEN 0 ELSE 1
    /\ cpc' = "done"
    /\ UNCHANGED <<file1, file2, no_gas, traces1, traces2, ci, all_match, gas_mismatch_count,
                   reported, gasVars, lineVars, preVars, normVars, statVars, txVars, batchVars>>

NextCmp == LoadTraces \/ CompareStep \/ Return

SpecCmp == InitCmp /\ [][NextCmp]_vars

(***************************************************************************)
(* normalize_value applied to two field values                             *)
(***************************************************************************)
\* the number ten and the number zero as trace writers encode them, a
\* neighbour of ten, and a string that is no number
NormValues ==
    {IntV(10), StrV(<<"1", "0">>), StrV(<<"0", "1", "0">>), StrV(<<" ", "1", "0">>),
     StrV(<<"0", "x", "a">>), StrV(<<"0", "x", "A">>), StrV(<<"0", "X", "A">>),
     StrV(<<"0", "x", "0", "a">>), StrV(<<"0", "x", "0", "0", "A">>),
     IntV(0), StrV(<<"0">>), StrV(<<"0", "x", "0">>), StrV(<<"0", "x", "0", "0">>),
     IntV(11), StrV(<<"0", "x", "b">>), StrV(<<"z", "z">>)}

InitNorm ==
    /\ value1 \in NormValues
    /\ value2 \in NormValues
    /\ normalized1 = NoneVal /\ normalized2 = NoneVal
    /\ npc = "start"
    /\ GasIdle /\ LineIdle /\ PreIdle /\ CmpIdle /\ StatIdle /\ TxIdle /\ BatchIdle

\* lines 69-70 of compare_traces: both operands of a field comparison
Normalize ==
    /\ npc = "start"
    /\ normalized1' = normalize_value(value1)
    /\ normalized2' = normalize_value(value2)
    /\ npc' = "done"
    /\ UNCHANGED <<value1, value2, gasVars, lineVars, preVars, cmpVars, statVars, txVars, batchVars>>

NextNorm == Normalize

SpecNorm == InitNorm /\ [][NextNorm]_vars

(***************************************************************************)
(* get_statistics: utils/tools.py                                          *)
(*                                                                         *)
(* An element of the list is a number [int |-> n] or some other value      *)
(* [str |-> s].  A quotient that statistics computes is the fraction       *)
(* [num |-> n, den |-> d] in lowest terms; a standard deviation is the     *)
(* square root of such a fraction, [sqrt_of |-> variance].                 *)
(***************************************************************************)
Abs(n) == IF n < 0 THEN 0 - n ELSE n

RECURSIVE GCD(_, _)
GCD(a, b) == IF b = 0 THEN a ELSE GCD(b, a % b)

\* n / d for d > 0
Frac(n, d) ==
    LET g == IF n = 0 THEN d ELSE GCD(Abs(n), d)
    IN [num |-> n \div g, den |-> d \div g]

RECURSIVE SumOf(_)
SumOf(xs) == IF xs = <<>> THEN 0 ELSE Head(xs) + SumOf(Tail(xs))

RECURSIVE Sorted(_)
\* sorted(numbers)
Sorted(xs) ==
    IF xs = <<>> THEN <<>>
    ELSE LET k == CHOOSE i \in 1..Len(xs) : \A j \in 1..Len(xs) : xs[i] <= xs[j]
         IN <<xs[k]>> \o Sorted(SubSeq(xs, 1, k - 1) \o SubSeq(xs, k + 1, Len(xs)))

MinOf(xs) == Sorted(xs)[1]

MaxOf(xs) == Sorted(xs)[Len(xs)]

\* statistics.mean
Mean(xs) == Frac(SumOf(xs), Len(xs))

\* statistics.median of a list that is not empty
Median(xs) ==
    LET data == Sorted(xs)
        n == Len(xs)
    IN IF n % 2 = 1 THEN Frac(data[n \div 2 + 1], 1)
       ELSE Frac(data[n \div 2] + data[n \div 2 + 1], 2)

Occurrences(xs, x) == Cardinality({k \in 1..Len(xs) : xs[k] = x})

\* statistics.mode: the most common value, the first met among equals
Mode(xs) ==
    LET k == CHOOSE i \in 1..Len(xs) :
                 /\ \A j \in 1..Len(xs) : Occurrences(xs, xs[j]) <= Occurrences(xs, xs[i])
                 /\ \A j \in 1..(i - 1) : Occurrences(xs, xs[j]) < Occurrences(xs, xs[i])
    IN xs[k]

\* statistics.variance of two or more values: the sample variance
Variance(xs) ==
    LET n == Len(xs)
        squares == SumOf([k \in 1..n |-> xs[k] * xs[k]])
    IN Frac(n * squares - SumOf(xs) * SumOf(xs), n * (n - 1))

IsNumber(value) == DOMAIN value = {"int"}

\* get_statistics without the guard of lines 105-106, summing and counting
\* whatever it is given
get_statistics_ZeroSummary(nums) ==
    IF ~(\A k \in 1..Len(nums) : IsNumber(nums[k])) THEN EmptyDict
    ELSE LET xs == [k \in 1..Len(nums) |-> nums[k].int]
         IN [Count |-> Len(xs), Sum |-> SumOf(xs)]

get_statistics(nums) ==
    IF Len(nums) = 0 THEN EmptyDict
    ELSE IF ~(\A k \in 1..Len(nums) : IsNumber(nums[k])) THEN EmptyDict
    ELSE LET xs == [k \in 1..Len(nums) |-> nums[k].int]
             n == Len(xs)
         IN [Mean |-> Mean(xs),
             Median |-> IF n > 1 THEN Median(xs) ELSE Frac(xs[1], 1),
             Mode |-> IF Cardinality({xs[k] : k \in 1..n}) < n THEN IntV(Mode(xs))
                      ELSE NoneVal,
             StandardDeviation |-> IF n > 1 THEN [sqrt_of |-> Variance(xs)]
                                   ELSE [sqrt_of |-> Frac(0, 1)],
             Variance |-> IF n > 1 THEN Variance(xs) ELSE Frac(0, 1),
             Range |-> MaxOf(xs) - MinOf(xs),
             Minimum |-> MinOf(xs),
             Maximum |-> MaxOf(xs),
             Q1 |-> IF n > 1 THEN Median(SubSeq(Sorted(xs), 1, n \div 2))
                    ELSE Frac(xs[1], 1),
             Q3 |-> IF n > 1 THEN Median(SubSeq(Sorted(xs), (n + 1) \div 2 + 1, n))
                    ELSE Frac(xs[1], 1),
             Count |-> n,
             Sum |-> SumOf(xs)]

MaxNumbers == 3

\* list elements: four numbers and a value that is no number
NumberPool == {IntV(0), IntV(1), IntV(2), IntV(5), StrV(<<"x">>)}

InitStats ==
    /\ numbers \in SeqsUpTo(NumberPool, MaxNumbers)
    /\ stats = NoneVal
    /\ spc = "start"
    /\ GasIdle /\ LineIdle /\ PreIdle /\ CmpIdle /\ NormIdle /\ TxIdle /\ BatchIdle

GetStatistics ==
    /\ spc = "start"
    /\ stats' = get_statistics(numbers)
    /\ spc' = "done"
    /\ UNCHANGED <<numbers, gasVars, lineVars, preVars, cmpVars, normVars, txVars, batchVars>>

NextStats == GetStatistics

SpecStats == InitStats /\ [][NextStats]_vars

(***************************************************************************)
(* Statistics over an arena: collectors/txstats.py                         *)
(*                                                                         *)
(* An outcome is [raised |-> TRUE] when the call raises, and otherwise     *)
(* [raised |-> FALSE, value |-> v].                                        *)
(***************************************************************************)
Raised == [raised |-> TRUE]

Returned(v) == [raised |-> FALSE, value |-> v]

RECURSIVE LStripZeros(_)
\* str.lstrip("0")
LStripZeros(text) ==
    IF text # <<>> /\ Head(text) = "0" THEN LStripZeros(Tail(text)) ELSE text

remove_extra_zeros(hex_str) ==
    IF ~StartsWith(hex_str, <<"0", "x">>) THEN <<"0", "x", "0", "0">>
    ELSE LET stripped == LStripZeros(Drop(hex_str, 2))
         IN make_hex_even(<<"0", "x">> \o (IF stripped # <<>> THEN stripped ELSE <<"0">>))

\* Counter(lst) as a dict; the order "sorted" gives its items does not show
\* in a function
count_and_sort(lst) ==
    [x \in {lst[k] : k \in 1..Len(lst)} |-> Occurrences(lst, x)]

\* an even-length memory string "0x.." holds (len - 2) / 2 bytes
collect_steps(steps) ==
    [opcodes |-> [k \in 1..Len(steps) |-> OpCode(steps[k].op)],
     stack_sizes |-> [k \in 1..Len(steps) |-> Len(steps[k].stack)],
     memory_sizes |-> [k \in 1..Len(steps) |-> (Len(steps[k].memory) - 2) \div 2],
     addresses |-> {steps[k].contract : k \in 1..Len(steps)},
     max_depth |-> MaxOf(<<0>> \o [k \in 1..Len(steps) |-> steps[k].depth])]

process_call(call_trace) ==
    [data_length |-> Len(call_trace.data), return_length |-> Len(call_trace.output)]

\* the slots of each address, explicit and inferred, under remove_extra_zeros;
\* a list that add_to_dict keeps free of duplicates is the set of its values
collect_storage_accessed(walk) ==
    [address \in DOMAIN walk.storage_dict \cup DOMAIN walk.second_dict |->
        (IF address \in DOMAIN walk.storage_dict
         THEN {remove_extra_zeros(key) : key \in DOMAIN walk.storage_dict[address]}
         ELSE {})
        \cup
        (IF address \in DOMAIN walk.second_dict
         THEN {remove_extra_zeros(walk.second_dict[address][k][1]) :
                  k \in 1..Len(walk.second_dict[address])}
         ELSE {})]

RECURSIVE Flatten(_)
\* list.extend over the nodes
Flatten(lists) == IF lists = <<>> THEN <<>> ELSE Head(lists) \o Flatten(Tail(lists))

Numbers(xs) == [k \in 1..Len(xs) |-> IntV(xs[k])]

RECURSIVE SetToSeq(_)
\* list(d.values()) of a dict over a set of keys, in some order
SetToSeq(pairs) ==
    IF pairs = {} THEN <<>>
    ELSE LET x == CHOOSE y \in pairs : TRUE IN <<x[2]>> \o SetToSeq(pairs \ {x})

\* collect_lists with max(depth_list, default=0) in line 128
collect_lists_DefaultDepth(result_list) ==
    IF result_list = NoneVal THEN Raised
    ELSE IF \E k \in 1..Len(result_list.nodes) : result_list.nodes[k].trace = NoneVal
    THEN Raised
    ELSE LET nodes == result_list.nodes
             walk == collect_from_steps(nodes)
         IN IF walk.raised THEN Raised
            ELSE Returned([max_depth |-> MaxOf(<<0>> \o [k \in 1..Len(nodes) |->
                                                 collect_steps(nodes[k].trace.steps).max_depth]),
                           count_address |-> Cardinality(
                               UNION {collect_steps(nodes[k].trace.steps).addresses :
                                         k \in 1..Len(nodes)})])

\* collect_lists.  It raises on an arena that is None (line 92), on a node
\* whose trace is None (line 103), where collect_from_steps raises (line 116)
\* and, with no node at all, on max of the empty depth_list (line 128).  The
\* keys of opcodes_count stay hex codes: process_reference renames them by
\* OPCODE_MAP of utils/opcodes.py.
collect_lists(result_list) ==
    IF result_list = NoneVal THEN Raised
    ELSE IF \E k \in 1..Len(result_list.nodes) : result_list.nodes[k].trace = NoneVal
    THEN Raised
    ELSE LET nodes == result_list.nodes
             per_node == [k \in 1..Len(nodes) |-> collect_steps(nodes[k].trace.steps)]
             calls == [k \in 1..Len(nodes) |-> process_call(nodes[k].trace)]
             walk == collect_from_steps(nodes)
             all_addresses == UNION {per_node[k].addresses : k \in 1..Len(nodes)}
             depth_list == [k \in 1..Len(nodes) |-> per_node[k].max_depth]
         IN IF walk.raised THEN Raised
            ELSE IF depth_list = <<>> THEN Raised
            ELSE LET storage_accessed == collect_storage_accessed(walk)
                     storage_accessed_count ==
                         [key \in DOMAIN storage_accessed |-> Cardinality(storage_accessed[key])]
                 IN Returned(
                     [opcodes_count |->
                          count_and_sort(Flatten([k \in 1..Len(nodes) |-> per_node[k].opcodes])),
                      stack_size_statistics |->
                          get_statistics(Numbers(Flatten([k \in 1..Len(nodes) |->
                                                             per_node[k].stack_sizes]))),
                      memory_size_statistics |->
                          get_statistics(Numbers(Flatten([k \in 1..Len(nodes) |->
                                                             per_node[k].memory_sizes]))),
                      call_size_statistics |->
                          get_statistics(Numbers([k \in 1..Len(nodes) |-> calls[k].data_length])),
                      return_size_statistics |->
                          get_statistics(Numbers([k \in 1..Len(nodes) |->
                                                     calls[k].return_length])),
                      addresses |-> all_addresses,
                      count_address |-> Cardinality(all_addresses),
                      max_depth |-> MaxOf(depth_list),
                      storage_accessed |-> storage_accessed,
                      storage_accessed_count |-> storage_accessed_count,
                      storage_accessed_statistics |->
                          get_statistics(Numbers(SetToSeq(
                              {<<key, storage_accessed_count[key]>> :
                                  key \in DOMAIN storage_accessed_count})))])

(***************************************************************************)
(* collect_transaction_data: collectors/transaction.py                     *)
(***************************************************************************)
\* the steps parse_trace_line accepts, in order
ParsedLines(lines) ==
    SelectSeq([k \in 1..Len(lines) |-> parse_trace_line(lines[k])],
              LAMBDA step : step # NoneVal)

convert_trace_lines_to_eip3155(lines, a) ==
    LET steps == ParsedLines(lines)
        lookup == ArenaLookup(a)
    IN [i \in 1..Len(steps) |-> Eip3155Step(steps, i, lookup.gas, lookup.cost)]

\* the index of the last line that starts with "depth:", 0 if there is none
LastTraceIndex(lines) ==
    IF \E k \in 1..Len(lines) : lines[k].marker
    THEN CHOOSE k \in 1..Len(lines) :
            lines[k].marker /\ \A j \in (k + 1)..Len(lines) : ~lines[j].marker
    ELSE 0

\* cast_trace_run_with_steps on the tool's output: text lines, then a JSON
\* object.  Text after the last "depth:" line is handed to json.loads with
\* the object and makes it raise.
cast_trace_run_with_steps(lines, json_output) ==
    IF LastTraceIndex(lines) < Len(lines) THEN Raised
    ELSE Returned([trace_lines |-> lines,
                   arena |-> IF "arena" \in DOMAIN json_output THEN json_output.arena
                             ELSE [nodes |-> <<>>]])

\* cast_trace_run followed by collect_from_steps, as collect_pre calls them
\* for the pre-state part of the environment info: json_output["arena"]
\* raises without the key, and the walk raises on None
WalkForPre(json_output) ==
    IF "arena" \notin DOMAIN json_output THEN Raised
    ELSE IF json_output.arena = NoneVal THEN Raised
    ELSE IF \E k \in 1..Len(json_output.arena.nodes) : json_output.arena.nodes[k].trace = NoneVal
    THEN Raised
    ELSE LET walk == collect_from_steps(json_output.arena.nodes)
         IN IF walk.raised THEN Raised ELSE Returned(walk)

TxStep(depth, pc, op, stack, gas_remaining, gas_cost, contract, memory, storage_change) ==
    [depth |-> depth, pc |-> pc, op |-> op, stack |-> stack,
     gas_remaining |-> gas_remaining, gas_cost |-> gas_cost,
     contract |-> contract, memory |-> memory, storage_change |-> storage_change]

TxNode(steps, data, output) ==
    [trace |-> [steps |-> steps, caller |-> AddrAMixed, address |-> AddrB,
                data |-> data, output |-> output]]

\* PUSH1 at depth 1 by A
TxStepPush == TxStep(1, 0, 96, <<>>, 9, 2, AddrA, <<"0", "x">>, NoneVal)
\* SSTORE at depth 2 by B of slot 0x1, which held 0x5
TxStepStore == TxStep(2, 1, 85, <<Slot1>>, 5, 3, AddrB, <<"0", "x", "0", "0">>,
                      Change(Slot1, <<"0", "x", "5">>))
\* RETURN at depth 2 by B
TxStepReturn == TxStep(2, 1, 243, StackB, 5, 3, AddrB, <<"0", "x", "0", "0">>, NoneVal)

\* the JSON object of the tool: without "arena", with "arena": null, with
\* "arena": [], and with arenas of one and two call nodes
CastJsons ==
    {[traces |-> <<>>],
     [arena |-> NoneVal],
     [arena |-> [nodes |-> <<>>]],
     [arena |-> [nodes |-> <<[trace |-> NoneVal]>>]],
     [arena |-> [nodes |-> <<TxNode(<<TxStepPush>>, <<"0", "x">>, <<"0", "x">>)>>]],
     [arena |-> [nodes |-> <<TxNode(<<TxStepPush, TxStepStore, TxStepReturn>>,
                                    <<"0", "x", "a", "b">>, <<"0", "x">>),
                             TxNode(<<TxStepStore>>, <<"0", "x">>, <<"0", "x", "0", "1">>)>>]]}

TxLines == {LineA5, LineB5, LineNoise}

InitTx ==
    /\ cast_lines \in SeqsUpTo(TxLines, MaxLines)
    /\ cast_json \in CastJsons
    /\ env_info = NoneVal /\ tx_trace_lines = <<>> /\ tx_arena = NoneVal
    /\ tx_stats = NoneVal /\ files = <<>>
    /\ txpc = "env"
    /\ GasIdle /\ LineIdle /\ PreIdle /\ CmpIdle /\ NormIdle /\ StatIdle /\ BatchIdle

\* collect_envinfo followed at once by the write of txTest.json
CollectEnvinfo_WritesAtOnce ==
    /\ txpc = "env"
    /\ \E rpc_ok \in BOOLEAN :
          LET walk == WalkForPre(cast_json)
          IN IF ~rpc_ok \/ walk.raised
             THEN txpc' = "raised" /\ UNCHANGED <<env_info, files>>
             ELSE /\ env_info' = [pre |-> walk.value.address_list]
                  /\ files' = Append(files, [name |-> "txTest.json",
                                             content |-> [pre |-> walk.value.address_list]])
                  /\ txpc' = "fetch"
    /\ UNCHANGED <<cast_lines, cast_json, tx_trace_lines, tx_arena, tx_stats,
                   gasVars, lineVars, preVars, cmpVars, normVars, statVars, batchVars>>

\* line 40: collect_envinfo; the reads of transaction and block raise when
\* the endpoint fails them
CollectEnvinfo ==
    /\ txpc = "env"
    /\ \E rpc_ok \in BOOLEAN :
          LET walk == WalkForPre(cast_json)
          IN IF ~rpc_ok \/ walk.raised
             THEN txpc' = "raised" /\ UNCHANGED env_info
             ELSE /\ env_info' = [pre |-> walk.value.address_list]
                  /\ txpc' = "fetch"
    /\ UNCHANGED <<cast_lines, cast_json, tx_trace_lines, tx_arena, tx_stats, files,
                   gasVars, lineVars, preVars, cmpVars, normVars, statVars, batchVars>>

\* line 44
FetchTrace ==
    /\ txpc = "fetch"
    /\ LET got == cast_trace_run_with_steps(cast_lines, cast_json)
       IN IF got.raised
          THEN txpc' = "raised" /\ UNCHANGED <<tx_trace_lines, tx_arena>>
          ELSE /\ tx_trace_lines' = got.value.trace_lines
               /\ tx_arena' = got.value.arena
               /\ txpc' = "stats"
    /\ UNCHANGED <<cast_lines, cast_json, env_info, tx_stats, files,
                   gasVars, lineVars, preVars, cmpVars, normVars, statVars, batchVars>>

\* collect_lists inside a try: a failure leaves empty statistics and the
\* run goes on
CollectLists_Swallowed ==
    /\ txpc = "stats"
    /\ LET got == collect_lists(tx_arena)
       IN /\ tx_stats' = IF got.raised THEN EmptyDict ELSE got.value
          /\ txpc' = "write_env"
    /\ UNCHANGED <<cast_lines, cast_json, env_info, tx_trace_lines, tx_arena, files,
                   gasVars, lineVars, preVars, cmpVars, normVars, statVars, batchVars>>

\* line 49
CollectLists ==
    /\ txpc = "stats"
    /\ LET got == collect_lists(tx_arena)
       IN IF got.raised
          THEN txpc' = "raised" /\ UNCHANGED tx_stats
          ELSE tx_stats' = got.value /\ txpc' = "write_env"
    /\ UNCHANGED <<cast_lines, cast_json, env_info, tx_trace_lines, tx_arena, files,
                   gasVars, lineVars, preVars, cmpVars, normVars, statVars, batchVars>>

\* lines 56-58
WriteEnv ==
    /\ txpc = "write_env"
    /\ files' = Append(files, [name |-> "txTest.json", content |-> env_info])
    /\ txpc' = "write_stats"
    /\ UNCHANGED <<cast_lines, cast_json, env_info, tx_trace_lines, tx_arena, tx_stats,
                   gasVars, lineVars, preVars, cmpVars, normVars, statVars, batchVars>>

\* lines 61-63
WriteStats ==
    /\ txpc = "write_stats"
    /\ files' = Append(files, [name |-> "txStats.json", content |-> tx_stats])
    /\ txpc' = "write_trace"
    /\ UNCHANGED <<cast_lines, cast_json, env_info, tx_trace_lines, tx_arena, tx_stats,
                   gasVars, lineVars, preVars, cmpVars, normVars, statVars, batchVars>>

\* lines 68-72: save_trace_lines_as_eip3155, then return True
SaveTrace ==
    /\ txpc = "write_trace"
    /\ files' = Append(files, [name |-> "txTraceEIP3155.json",
                               content |-> convert_trace_lines_to_eip3155(tx_trace_lines,
                                                                          tx_arena)])
    /\ txpc' = "done"
    /\ UNCHANGED <<cast_lines, cast_json, env_info, tx_trace_lines, tx_arena, tx_stats,
                   gasVars, lineVars, preVars, cmpVars, normVars, statVars, batchVars>>

NextTx == CollectEnvinfo \/ FetchTrace \/ CollectLists \/ WriteEnv \/ WriteStats \/ SaveTrace

SpecTx == InitTx /\ [][NextTx]_vars

(***************************************************************************)
(* collect_from_file and collect_from_block (collectors/batch.py)          *)
(***************************************************************************)
MaxTxs == 2

MaxAttempts == 2

\* transaction hashes as the list holds them
TxHashes == {"0xaa", "0xbb"}

\* lines 67-73 and 141-147: the returned dict without its two timings
BatchStats(total_transactions, ok_count) ==
    [total_transactions |-> total_transactions,
     successful |-> ok_count,
     failed |-> total_transactions - ok_count]

\* --max-attempts is any int; the list is the one left by the is_tx filter
\* (file) or block_data["transactions"] (block)
InitBatch ==
    /\ entry_point \in {"file", "block"}
    /\ tx_list \in SeqsUpTo(TxHashes, MaxTxs)
    /\ max_attempts \in (0 - 1)..MaxAttempts
    /\ bi = 1 /\ attempts = 0 /\ successful = 0
    /\ invocations = <<>> /\ batch_stats = NoneVal
    /\ bpc = "start"
    /\ GasIdle /\ LineIdle /\ PreIdle /\ CmpIdle /\ NormIdle /\ StatIdle /\ TxIdle

\* lines 38-39: the file is opened and read, which raises when it is missing
ReadFile ==
    /\ bpc = "start" /\ entry_point = "file"
    /\ \E opened \in BOOLEAN : bpc' = IF opened THEN "loop" ELSE "raised"
    /\ UNCHANGED <<entry_point, tx_list, max_attempts, bi, attempts, successful, invocations,
                   batch_stats, gasVars, lineVars, preVars, cmpVars, normVars, statVars, txVars>>

\* lines 104-105: cast block, check=True raising when the command fails
CastBlockRun ==
    /\ bpc = "start" /\ entry_point = "block"
    /\ \E answered \in BOOLEAN : bpc' = IF answered THEN "loop" ELSE "raised"
    /\ UNCHANGED <<entry_point, tx_list, max_attempts, bi, attempts, successful, invocations,
                   batch_stats, gasVars, lineVars, preVars, cmpVars, normVars, statVars, txVars>>

\* one pass of the while body that counts a success only on the first attempt
AttemptOf_CountFirst(e) ==
    /\ bpc = "loop" /\ entry_point = e
    /\ bi <= Len(tx_list)
    /\ attempts < max_attempts
    /\ \E collected \in BOOLEAN :
          /\ invocations' = Append(invocations, [tx |-> bi, ok |-> collected])
          /\ IF collected
             THEN /\ successful' = IF attempts = 0 THEN successful + 1 ELSE successful
                  /\ bi' = bi + 1
                  /\ attempts' = 0
             ELSE /\ successful' = successful
                  /\ IF attempts + 1 < max_attempts
                     THEN bi' = bi /\ attempts' = attempts + 1
                     ELSE bi' = bi + 1 /\ attempts' = 0
    /\ UNCHANGED <<entry_point, tx_list, max_attempts, batch_stats, bpc,
                   gasVars, lineVars, preVars, cmpVars, normVars, statVars, txVars>>

\* one pass of the while body that goes on after a success
AttemptOf_RetryAfterSuccess(e) ==
    /\ bpc = "loop" /\ entry_point = e
    /\ bi <= Len(tx_list)
    /\ attempts < max_attempts
    /\ \E collected \in BOOLEAN :
          /\ invocations' = Append(invocations, [tx |-> bi, ok |-> collected])
          /\ successful' = IF collected THEN successful + 1 ELSE successful
          /\ IF attempts + 1 < max_attempts
             THEN bi' = bi /\ attempts' = attempts + 1
             ELSE bi' = bi + 1 /\ attempts' = 0
    /\ UNCHANGED <<entry_point, tx_list, max_attempts, batch_stats, bpc,
                   gasVars, lineVars, preVars, cmpVars, normVars, statVars, txVars>>

\* lines 49-61 and 123-135: one pass of the while body for tx_list[bi], one
\* invocation of collect_transaction_data.  A success is counted and breaks
\* to the next transaction; a failure counts an attempt and, with the
\* attempts used up, the while ends and the for moves on (attempts = 0 is
\* line 48 / 122 for the next transaction).
AttemptOf(e) ==
    /\ bpc = "loop" /\ entry_point = e
    /\ bi <= Len(tx_list)
    /\ attempts < max_attempts
    /\ \E collected \in BOOLEAN :
          /\ invocations' = Append(invocations, [tx |-> bi, ok |-> collected])
          /\ IF collected
             THEN /\ successful' = successful + 1
                  /\ bi' = bi + 1
                  /\ attempts' = 0
             ELSE /\ successful' = successful
                  /\ IF attempts + 1 < max_attempts
                     THEN bi' = bi /\ attempts' = attempts + 1
                     ELSE bi' = bi + 1 /\ attempts' = 0
    /\ UNCHANGED <<entry_point, tx_list, max_attempts, batch_stats, bpc,
                   gasVars, lineVars, preVars, cmpVars, normVars, statVars, txVars>>

\* lines 48-49 and 122-123: the while condition is false on entry_point, the body
\* is not run for tx_list[bi]
WhileSkippedOf(e) ==
    /\ bpc = "loop" /\ entry_point = e
    /\ bi <= Len(tx_list)
    /\ attempts = 0
    /\ ~(attempts < max_attempts)
    /\ bi' = bi + 1
    /\ UNCHANGED <<entry_point, tx_list, max_attempts, attempts, successful, invocations,
                   batch_stats, bpc,
                   gasVars, lineVars, preVars, cmpVars, normVars, statVars, txVars>>

\* lines 63-80 and 137-161: the for is over, the dict is returned
\* (generate_statistics of the block is inside a try and changes nothing here)
ReturnStatsOf(e) ==
    /\ bpc = "loop" /\ entry_point = e
    /\ bi > Len(tx_list)
    /\ batch_stats' = BatchStats(Len(tx_list), successful)
    /\ bpc' = "done"
    /\ UNCHANGED <<entry_point, tx_list, max_attempts, bi, attempts, successful, invocations,
                   gasVars, lineVars, preVars, cmpVars, normVars, statVars, txVars>>

AttemptFile == AttemptOf("file")

AttemptBlock == AttemptOf("block")

WhileSkippedFile == WhileSkippedOf("file")

WhileSkippedBlock == WhileSkippedOf("block")

ReturnFileStats == ReturnStatsOf("file")

ReturnBlockStats == ReturnStatsOf("block")

NextBatch ==
    \/ ReadFile \/ CastBlockRun
    \/ AttemptFile \/ AttemptBlock
    \/ WhileSkippedFile \/ WhileSkippedBlock
    \/ ReturnFileStats \/ ReturnBlockStats

SpecBatch == InitBatch /\ [][NextBatch]_vars

(***************************************************************************)
(* Properties of the gas reconciler (under SpecGas)                        *)
(***************************************************************************)
Gas(i) == HexToInt(eip3155_steps[i].gas)

Cost(i) == HexToInt(eip3155_steps[i].gasCost)

TextGas(i) == HexToInt(parsed_steps[i].gas)

DepthDecreaseAt(i) == i > 1 /\ parsed_steps[i].depth < parsed_steps[i - 1].depth

Hit(i) == Fingerprint(parsed_steps[i]) \in DOMAIN arena_gas

ArenaGas(i) == arena_gas[Fingerprint(parsed_steps[i])]

Emitted == 1..Len(eip3155_steps)

\* C1. Gas continuity: for every two adjacent canonical steps of equal depth,
\* the gas of the first minus its gasCost is the gas of the second.
C1_GasContinuity ==
    \A i \in Emitted :
        (i + 1 \in Emitted /\ eip3155_steps[i].depth = eip3155_steps[i + 1].depth)
            => Gas(i) - Cost(i) = Gas(i + 1)

\* a finished run where a step corrected from the arena is followed by a step
\* of the same depth
C1_Witness ==
    /\ gpc = "done"
    /\ \E i \in Emitted :
          /\ i + 1 \in Emitted
          /\ eip3155_steps[i].depth = eip3155_steps[i + 1].depth
          /\ DepthDecreaseAt(i) /\ Hit(i)
          /\ Gas(i) # TextGas(i)
          /\ Cost(i) # 0

\* C2. Frame-boundary correction: a step of lower depth than its predecessor
\* whose fingerprint is indexed is emitted with the arena's gas, as hex(value).
C2_FrameBoundaryCorrection ==
    \A i \in Emitted :
        (DepthDecreaseAt(i) /\ Hit(i))
            => /\ Gas(i) = ArenaGas(i)
               /\ eip3155_steps[i].gas = Hex(ArenaGas(i))

C2_Witness ==
    /\ gpc = "done"
    /\ \E i \in Emitted : DepthDecreaseAt(i) /\ Hit(i) /\ ArenaGas(i) # TextGas(i)

\* C3 as claimed. Every step whose fingerprint is indexed, at any position, is
\* emitted with the arena's gas.
C3_JoinAtEveryStep ==
    \A i \in Emitted : Hit(i) => Gas(i) = ArenaGas(i)

\* C3 as amended. A step whose fingerprint is indexed is emitted with the
\* arena's gas when its depth is lower than its predecessor's, and with the
\* text gas at every other position, also when the two sources disagree.
C3_JoinAtDepthDecreaseOnly ==
    \A i \in Emitted :
        Hit(i) => Gas(i) = (IF DepthDecreaseAt(i) THEN ArenaGas(i) ELSE TextGas(i))

C3_Witness ==
    /\ gpc = "done"
    /\ \E i \in Emitted :
          /\ Hit(i) /\ ~DepthDecreaseAt(i)
          /\ ArenaGas(i) # TextGas(i)
          /\ Gas(i) = TextGas(i)
    /\ \E i \in Emitted : Hit(i) /\ DepthDecreaseAt(i) /\ ArenaGas(i) # TextGas(i)

\* the lines that parse, in order
ParsedOf(lines) ==
    SelectSeq([k \in 1..Len(lines) |-> parse_trace_line(lines[k])], LAMBDA r : r # NoneVal)

\* C6. A finished reconciliation holds exactly one canonical step per line that
\* parses, in the lines' order, with pc, op, depth, stack, memSize and refund
\* as parsed; the other lines add nothing, and every run finishes.
C6_OneStepPerParsedLine ==
    /\ gpc # "done" =>
          \/ gpc = "lookup"
          \/ gpc = "parse" /\ gi < Len(trace_lines)
          \/ gpc = "build" /\ Len(eip3155_steps) < Len(parsed_steps)
    /\ gpc = "done" =>
          LET want == ParsedOf(trace_lines)
          IN /\ gi = Len(trace_lines)
             /\ Len(eip3155_steps) = Len(want)
             /\ \A i \in 1..Len(want) :
                   /\ eip3155_steps[i].pc = want[i].pc
                   /\ eip3155_steps[i].op = want[i].op
                   /\ eip3155_steps[i].depth = want[i].depth
                   /\ eip3155_steps[i].stack = want[i].stack
                   /\ eip3155_steps[i].memSize = want[i].memSize
                   /\ eip3155_steps[i].refund = want[i].refund

\* a finished run over lines of which the middle one does not parse
C6_Witness ==
    /\ gpc = "done"
    /\ Len(trace_lines) = 3
    /\ parse_trace_line(trace_lines[2]) = NoneVal
    /\ Len(eip3155_steps) = 2
    /\ eip3155_steps[1] # eip3155_steps[2]

\* C7. Lookup miss: a step of lower depth than its predecessor whose
\* fingerprint is not indexed (no arena, an empty one, or no such step in it)
\* is emitted with the text gas, and the run goes on to its end.
C7_LookupMissKeepsTextGas ==
    /\ \A i \in Emitted : (DepthDecreaseAt(i) /\ ~Hit(i)) => Gas(i) = TextGas(i)
    /\ gpc = "done" => Len(eip3155_steps) = Len(parsed_steps)

C7_Witness ==
    /\ gpc = "done"
    /\ arena = NoneVal
    /\ \E i \in Emitted : DepthDecreaseAt(i) /\ ~Hit(i) /\ TextGas(i) # 0

\* the steps of all call nodes of the arena in traversal order
AllArenaSteps ==
    IF arena = NoneVal THEN <<>>
    ELSE Flatten([k \in 1..Len(arena.nodes) |->
                     IF arena.nodes[k].trace = NoneVal THEN <<>>
                     ELSE arena.nodes[k].trace.steps])

\* C21. Arena index: once the lookups are built, the keys of both are
\* exactly the fingerprints of the steps of all call nodes, and a key maps to
\* the gas_remaining and the gas_cost of the last step with that fingerprint
\* in traversal order.
C21_ArenaIndexLastWins ==
    gpc # "lookup" =>
        /\ DOMAIN arena_gas = {Fingerprint(AllArenaSteps[k]) : k \in 1..Len(AllArenaSteps)}
        /\ DOMAIN arena_gas_cost = DOMAIN arena_gas
        /\ \A k \in 1..Len(AllArenaSteps) :
              (\A j \in (k + 1)..Len(AllArenaSteps) :
                  Fingerprint(AllArenaSteps[j]) # Fingerprint(AllArenaSteps[k]))
                 => /\ arena_gas[Fingerprint(AllArenaSteps[k])] = AllArenaSteps[k].gas_remaining
                    /\ arena_gas_cost[Fingerprint(AllArenaSteps[k])] = AllArenaSteps[k].gas_cost

\* the arena of two nodes, whose first and last step share a fingerprint:
\* the index holds the values of the last one
C21_Witness ==
    /\ gpc = "done"
    /\ Len(AllArenaSteps) = 3
    /\ Fingerprint(AllArenaSteps[1]) = Fingerprint(AllArenaSteps[3])
    /\ AllArenaSteps[1].gas_remaining # AllArenaSteps[3].gas_remaining
    /\ arena_gas[Fingerprint(AllArenaSteps[1])] = 12
    /\ arena_gas_cost[Fingerprint(AllArenaSteps[1])] = 4
    /\ Cardinality(DOMAIN arena_gas) = 2

\* parsed step i is a frame exit whose fingerprint the cost index holds
FrameExitHit(i) ==
    /\ i + 1 <= Len(parsed_steps)
    /\ parsed_steps[i + 1].depth < parsed_steps[i].depth
    /\ Fingerprint(parsed_steps[i]) \in DOMAIN arena_gas_cost

\* C22. Frame-exit cost: a parsed step followed by a step of strictly lower
\* depth, with its fingerprint a key of the cost index, is emitted with the
\* arena's gas_cost, whatever the gas of the two steps.
C22_FrameExitCost ==
    \A i \in Emitted :
        FrameExitHit(i) => Cost(i) = arena_gas_cost[Fingerprint(parsed_steps[i])]

\* a frame exit emitted with the arena's cost 3, which is not the difference
\* of the gas of the two steps, neither as emitted nor as in the text
C22_Witness ==
    /\ gpc = "done"
    /\ \E i \in Emitted :
          /\ FrameExitHit(i)
          /\ Cost(i) = 3
          /\ Gas(i) - Gas(i + 1) # 3
          /\ TextGas(i) - TextGas(i + 1) # 3

\* C23. Difference cost: a parsed step with a successor that is not a frame
\* exit with a cost-index hit is emitted with the difference of the emitted
\* gas of the two steps, so gas - gasCost is the gas of the successor also
\* across a depth increase and across a depth decrease without a hit.
C23_DifferenceCost ==
    \A i \in Emitted :
        (i + 1 \in Emitted /\ ~FrameExitHit(i))
            => /\ Cost(i) = Gas(i) - Gas(i + 1)
               /\ Gas(i) - Cost(i) = Gas(i + 1)

\* a finished run with a depth increase, and with a depth decrease whose
\* first step is not indexed and whose second is emitted with the arena's gas
C23_Witness ==
    /\ gpc = "done"
    /\ \E i \in Emitted :
          /\ i + 1 \in Emitted
          /\ parsed_steps[i + 1].depth > parsed_steps[i].depth
    /\ \E i \in Emitted :
          /\ i + 1 \in Emitted
          /\ parsed_steps[i + 1].depth < parsed_steps[i].depth
          /\ ~FrameExitHit(i)
          /\ Hit(i + 1)
          /\ Gas(i + 1) = ArenaGas(i + 1)
          /\ Gas(i + 1) # TextGas(i + 1)

\* C24. Last-step cost: the last canonical step of a trace that is not
\* empty has gasCost 0, also when the cost index holds its fingerprint with a
\* cost that is not zero.
C24_LastStepCostZero ==
    (gpc = "done" /\ eip3155_steps # <<>>)
        => eip3155_steps[Len(eip3155_steps)].gasCost = <<"0", "x", "0">>

\* the last step is indexed with an arena cost that is not zero
C24_Witness ==
    /\ gpc = "done"
    /\ Len(eip3155_steps) = 2
    /\ Fingerprint(parsed_steps[2]) \in DOMAIN arena_gas_cost
    /\ arena_gas_cost[Fingerprint(parsed_steps[2])] # 0
    /\ Cost(2) = 0

(***************************************************************************)
(* Properties of the batch collectors (under SpecBatch)                    *)
(***************************************************************************)
\* the positions in the log of the invocations for the k-th listed transaction
CallsOf(k) == {p \in 1..Len(invocations) : invocations[p].tx = k}

\* the listed transactions the for loop is through with
Handled == {k \in 1..Len(tx_list) : k < bi}

\* no invocation for a transaction follows a successful one for it, and the
\* invocations follow the list order
InvocationOrder ==
    \A p, q \in 1..Len(invocations) :
        p < q => /\ invocations[p].tx <= invocations[q].tx
                 /\ invocations[p].tx = invocations[q].tx => ~invocations[p].ok

\* C25 as claimed. Batch retry bound: every handled transaction was invoked
\* at least once when max_attempts >= 1 and at most max_attempts times, never
\* again after a success, and in list order.
C25_AsClaimed ==
    /\ \A k \in Handled :
          /\ max_attempts >= 1 => Cardinality(CallsOf(k)) >= 1
          /\ Cardinality(CallsOf(k)) <= max_attempts
    /\ InvocationOrder

\* C25. Batch retry bound: every handled transaction was invoked at least
\* once when max_attempts >= 1 and at most max_attempts times, or not at all
\* when max_attempts is negative; no invocation for a transaction follows a
\* successful one for it; the invocations follow the list order; the function
\* returns with every listed transaction handled.
C25_RetryBound ==
    /\ \A k \in 1..Len(tx_list) :
          /\ (k \in Handled /\ max_attempts >= 1) => Cardinality(CallsOf(k)) >= 1
          /\ Cardinality(CallsOf(k)) <= (IF max_attempts >= 0 THEN max_attempts ELSE 0)
    /\ InvocationOrder
    /\ bpc = "done" => Handled = 1..Len(tx_list)

\* a returned run of two transactions: the first failed twice, the second
\* failed once and then succeeded
C25_Witness ==
    /\ bpc = "done"
    /\ max_attempts = 2
    /\ Len(tx_list) = 2
    /\ invocations = <<[tx |-> 1, ok |-> FALSE], [tx |-> 1, ok |-> FALSE],
                       [tx |-> 2, ok |-> FALSE], [tx |-> 2, ok |-> TRUE]>>

\* the listed transactions with a successful invocation
Succeeded == {k \in 1..Len(tx_list) : \E p \in CallsOf(k) : invocations[p].ok}

\* the listed transactions whose attempts were used up without a success
Exhausted ==
    {k \in 1..Len(tx_list) :
        /\ \A p \in CallsOf(k) : ~invocations[p].ok
        /\ Cardinality(CallsOf(k)) >= max_attempts}

\* C28. Batch accounting: the returned dict counts as successful the listed
\* transactions with a successful attempt, each once, as failed those whose
\* max_attempts attempts all failed, and the two add up to total_transactions.
C28_BatchAccounting ==
    bpc = "done" =>
        /\ batch_stats.total_transactions = Len(tx_list)
        /\ batch_stats.successful = Cardinality(Succeeded)
        /\ batch_stats.successful
              = Cardinality({p \in 1..Len(invocations) : invocations[p].ok})
        /\ batch_stats.failed = Cardinality(Exhausted)
        /\ batch_stats.successful + batch_stats.failed = batch_stats.total_transactions

\* a returned run of two transactions, one collected at its second attempt
\* and one given up
C28_Witness ==
    /\ bpc = "done"
    /\ max_attempts = 2
    /\ Len(invocations) = 4
    /\ Cardinality(Succeeded) = 1
    /\ Cardinality(Exhausted) = 1
    /\ batch_stats.successful = 1
    /\ batch_stats.failed = 1

(***************************************************************************)
(* Properties of collect_pre (under SpecPre)                               *)
(***************************************************************************)
\* the explicit storage_change entries in arena traversal order: nodes in
\* arena order, steps in order within a node
RECURSIVE ChangesOfSteps(_)
ChangesOfSteps(steps) ==
    IF steps = <<>> THEN <<>>
    ELSE (IF Head(steps).storage_change # NoneVal
          THEN <<[contract |-> Head(steps).contract,
                  key |-> Head(steps).storage_change.key,
                  had_value |-> Head(steps).storage_change.had_value,
                  node |-> 0]>>
          ELSE <<>>) \o ChangesOfSteps(Tail(steps))

RECURSIVE ChangesOfNodes(_, _)
ChangesOfNodes(nodes, k) ==
    IF k > Len(nodes) THEN <<>>
    ELSE [j \in 1..Len(ChangesOfSteps(nodes[k].trace.steps)) |->
             [ChangesOfSteps(nodes[k].trace.steps)[j] EXCEPT !.node = k]]
         \o ChangesOfNodes(nodes, k + 1)

ExplicitChanges == ChangesOfNodes(trace_list, 1)

SameSlot(c, d) == c.contract = d.contract /\ make_hex_even(c.key) = make_hex_even(d.key)

\* the pre-state value of a slot as a number; a slot the storage lacks holds
\* the chain's default, zero
PreValue(address, slot) ==
    IF slot \in DOMAIN pre_dict[address].storage
    THEN HexToInt(pre_dict[address].storage[slot])
    ELSE 0

\* C4 as claimed. Storage pruning: no slot of a pre-state entry maps to a
\* value that is numerically zero, whatever its hex encoding.
C4_NoZeroValuedSlot ==
    \A address \in DOMAIN pre_dict :
        \A slot \in DOMAIN pre_dict[address].storage :
            HexToInt(pre_dict[address].storage[slot]) # 0

\* C5. First-write-wins: of the explicit storage_change entries for one
\* address and slot, the first in arena traversal order decides the pre-state
\* value of the slot, in one node or across nodes; the slot is stored under
\* the even-length key with the even-length had_value, or left out when that
\* is "0x00".
C5_FirstWriteWins ==
    ppc = "done" =>
        \A j \in 1..Len(ExplicitChanges) :
            LET c == ExplicitChanges[j]
                slot == make_hex_even(c.key)
                storage == pre_dict[c.contract].storage
            IN (\A i \in 1..(j - 1) : ~SameSlot(ExplicitChanges[i], c))
                  => /\ PreValue(c.contract, slot) = HexToInt(c.had_value)
                     /\ slot \in DOMAIN storage => storage[slot] = make_hex_even(c.had_value)

\* the first entry for a slot, not zero, has won over a later one with
\* another had_value, of the same node or of another one
ConflictWon(sameNode) ==
    \E i, j \in 1..Len(ExplicitChanges) :
        LET c == ExplicitChanges[i]
            d == ExplicitChanges[j]
        IN /\ i < j /\ SameSlot(c, d)
           /\ (c.node = d.node) = sameNode
           /\ \A h \in 1..(i - 1) : ~SameSlot(ExplicitChanges[h], c)
           /\ HexToInt(c.had_value) # HexToInt(d.had_value)
           /\ HexToInt(c.had_value) # 0
           /\ PreValue(c.contract, make_hex_even(c.key)) = HexToInt(c.had_value)

C5_Witness ==
    /\ ppc = "done"
    /\ Len(trace_list) = 2
    /\ ConflictWon(FALSE)
    /\ ConflictWon(TRUE)

\* the addresses the walk touches
TouchedAddresses ==
    UNION {{Lower(trace_list[k].trace.caller), Lower(trace_list[k].trace.address)}
             \cup {trace_list[k].trace.steps[j].contract : j \in 1..Len(trace_list[k].trace.steps)}
             \cup UNION {find_address_in_list(trace_list[k].trace.steps[j].stack) :
                           j \in {h \in 1..Len(trace_list[k].trace.steps) :
                                    trace_list[k].trace.steps[h].op \in {241, 242, 244, 250}}} :
           k \in 1..Len(trace_list)}

IsEven(text) == Len(text) % 2 = 0

\* C8. Per-field chain-read failure: whatever reads fail, a finished
\* collect_pre holds an entry for every touched address; in every entry a
\* failed field holds its default (balance 0x00, nonce 0x01, code 0x) and a
\* field that was read holds the value read; a run never stops short.
C8_ReadFailuresDefaulted ==
    /\ ppc = "resolve" => pending # {}
    /\ ppc = "done" => DOMAIN pre_dict = TouchedAddresses
    /\ \A address \in DOMAIN pre_dict :
          LET entry == pre_dict[address]
          IN /\ IF <<address, "balance">> \in failed
                THEN entry.balance = <<"0", "x", "0", "0">>
                ELSE HexToInt(entry.balance) = ChainBalance(address) /\ IsEven(entry.balance)
             /\ IF <<address, "nonce">> \in failed
                THEN entry.nonce = <<"0", "x", "0", "1">>
                ELSE HexToInt(entry.nonce) = ChainNonce(address) /\ IsEven(entry.nonce)
             /\ IF <<address, "code">> \in failed
                THEN entry.code = <<"0", "x">>
                ELSE entry.code = <<"0", "x">> \o ChainCode(address)

\* a finished run in which reads of both addresses failed and others of the
\* same addresses succeeded
C8_Witness ==
    /\ ppc = "done"
    /\ DOMAIN pre_dict = {AddrA, AddrB}
    /\ <<AddrA, "nonce">> \in failed /\ <<AddrA, "code">> \notin failed
    /\ <<AddrB, "balance">> \notin failed /\ <<AddrB, "code">> \in failed
    /\ pre_dict[AddrA].code = <<"0", "x", "6", "0", "0", "1">>
    /\ pre_dict[AddrB].balance = <<"0", "x", "0", "1", "0", "0">>
    /\ pre_dict[AddrA].storage # EmptyDict

\* the entry of an address as the arena and the read outcomes alone decide
\* it: nothing in it depends on which addresses were visited before
EntryOf(walk, address) ==
    LET storage == IF address \in DOMAIN walk.storage_dict THEN walk.storage_dict[address]
                   ELSE EmptyDict
        filled == IF address \in DOMAIN walk.second_dict
                  THEN FillInferred(storage, walk.second_dict[address])
                  ELSE storage
    IN [balance |-> retrieve_balance(<<address, "balance">> \notin failed, address),
        nonce |-> retrieve_nonce(<<address, "nonce">> \notin failed, address),
        code |-> retrieve_code(<<address, "code">> \notin failed, address),
        storage |-> RemoveZeroValues(filled)]

\* C13. Order independence of account resolution: whatever the order in
\* which the touched addresses are visited, every entry written so far, and
\* so the finished mapping, is the one the arena and the read outcomes of
\* that address decide.
C13_OrderIndependent ==
    ppc \in {"resolve", "done"} =>
        LET walk == collect_from_steps(trace_list)
        IN /\ \A address \in DOMAIN pre_dict : pre_dict[address] = EntryOf(walk, address)
           /\ ppc = "done" => DOMAIN pre_dict = walk.address_list

\* a finished run over two addresses, only one of which has storage, with a
\* failed read for each
C13_Witness ==
    /\ ppc = "done"
    /\ DOMAIN pre_dict = {AddrA, AddrB}
    /\ pre_dict[AddrA].storage # EmptyDict
    /\ pre_dict[AddrB].storage = EmptyDict
    /\ <<AddrA, "balance">> \in failed /\ <<AddrB, "nonce">> \in failed

(***************************************************************************)
(* Properties of the pre-state walker (under SpecWalk)                     *)
(***************************************************************************)
\* C17 as claimed. Slot normalization: a key of the pre-state storage that
\* denotes the slot of an explicit storage_change is that slot with its
\* leading zeros stripped and padded to even length, so encodings of one
\* slot that differ in leading zeros share one key.
C17_OneKeyPerSlot ==
    ppc = "done" =>
        \A j \in 1..Len(ExplicitChanges) :
            LET c == ExplicitChanges[j]
            IN \A key \in DOMAIN pre_dict[c.contract].storage :
                  HexToInt(key) = HexToInt(c.key) => key = remove_extra_zeros(c.key)

\* the positions <<node, step>> of the steps that infer an observation: an
\* SLOAD (84) or SSTORE (85) that is not the last step of its node
ObsPositions ==
    UNION {{<<n, k>> : k \in {h \in 1..(Len(trace_list[n].trace.steps) - 1) :
                                 trace_list[n].trace.steps[h].op \in {84, 85}}} :
           n \in 1..Len(trace_list)}

\* the observation a position infers: the slot on top of the step's stack
\* and the value on top of the next step's stack, as even-length strings
Obs(p) ==
    LET steps == trace_list[p[1]].trace.steps
    IN [contract |-> steps[p[2]].contract,
        key |-> make_hex_even(Last(steps[p[2]].stack)),
        value |-> make_hex_even(Last(steps[p[2] + 1].stack))]

\* arena traversal order
Before(p, q) == p[1] < q[1] \/ (p[1] = q[1] /\ p[2] < q[2])

\* the slots, as even-length keys, that the explicit changes of an address name
ExplicitKeys(address) ==
    {make_hex_even(ExplicitChanges[j].key) :
        j \in {i \in 1..Len(ExplicitChanges) : ExplicitChanges[i].contract = address}}

\* storage holds the value under the key, or lacks the key if the value is 0x00
Holds(storage, key, value) ==
    IF value = <<"0", "x", "0", "0">> THEN key \notin DOMAIN storage
    ELSE key \in DOMAIN storage /\ storage[key] = value

\* C18. Explicit-over-inferred merge, a slot being the even-length key it is
\* filed under: a slot that an explicit storage_change of the address names
\* holds the had_value of the first such change, or is pruned if that is
\* zero, whatever was inferred for it; a slot no explicit change names holds
\* the value of its first inferred observation in traversal order; the
\* storage has no other slot.
C18_ExplicitOverInferred ==
    ppc = "done" =>
        /\ \A j \in 1..Len(ExplicitChanges) :
              LET c == ExplicitChanges[j]
              IN (\A i \in 1..(j - 1) : ~SameSlot(ExplicitChanges[i], c))
                    => Holds(pre_dict[c.contract].storage, make_hex_even(c.key),
                             make_hex_even(c.had_value))
        /\ \A p \in ObsPositions :
              LET o == Obs(p)
              IN (/\ o.key \notin ExplicitKeys(o.contract)
                  /\ \A q \in ObsPositions :
                        Before(q, p) => ~(Obs(q).contract = o.contract /\ Obs(q).key = o.key))
                    => Holds(pre_dict[o.contract].storage, o.key, o.value)
        /\ \A address \in DOMAIN pre_dict :
              \A key \in DOMAIN pre_dict[address].storage :
                  \/ key \in ExplicitKeys(address)
                  \/ \E p \in ObsPositions : Obs(p).contract = address /\ Obs(p).key = key

\* slot 0x2 of A, named by an explicit change that held zero, is pruned
\* although a value that is not zero was inferred for it; and slot 0x0001,
\* named by an explicit change, holds 0x07 although another value was inferred
C18_Witness ==
    /\ ppc = "done"
    /\ trace_list = <<CallNode(<<StepStoreNil, StepStoreWide, StepLoad>>)>>
    /\ <<"0", "x", "0", "2">> \in ExplicitKeys(AddrA)
    /\ \E p \in ObsPositions :
          Obs(p) = [contract |-> AddrA, key |-> <<"0", "x", "0", "2">>, value |-> SlotWide]
    /\ pre_dict[AddrA].storage = Put(EmptyDict, SlotWide, <<"0", "x", "0", "7">>)

\* C19 as claimed. Inferred observation: the walk completes, and for every
\* SLOAD or SSTORE step that is not the last of its node the pair (top of
\* its stack, top of the next step's stack) is recorded under the executing
\* contract, whatever the stack of the next step holds.
C19_ObservationRecorded ==
    ppc # "walk" =>
        /\ ppc # "raised"
        /\ \A p \in ObsPositions :
              LET steps == trace_list[p[1]].trace.steps
                  contract == steps[p[2]].contract
              IN /\ contract \in DOMAIN second_dict
                 /\ Contains(second_dict[contract],
                             <<Last(steps[p[2]].stack), Last(steps[p[2] + 1].stack)>>)

\* a value shaped like an address: 42 characters, the first two "0x"
AddressShaped(v) == Len(v) = 42 /\ v[1] = "0" /\ v[2] = "x"

\* the union the walk is to return: over all call nodes, the contract of
\* every step, the address-shaped stack values of the steps with opcode F1,
\* F2, F4 or FA, and the node's caller and address in lower case
TouchedUnion ==
    UNION {LET steps == trace_list[n].trace.steps
           IN {Lower(trace_list[n].trace.caller), Lower(trace_list[n].trace.address)}
                \cup {steps[k].contract : k \in 1..Len(steps)}
                \cup UNION {{steps[k].stack[h] :
                                h \in {i \in 1..Len(steps[k].stack) :
                                          AddressShaped(steps[k].stack[i])}} :
                            k \in {j \in 1..Len(steps) : steps[j].op \in {241, 242, 244, 250}}} :
           n \in 1..Len(trace_list)}

\* C20. Touched-address set: the address list that collect_from_steps
\* returns is the union above, and holds the lower-case caller and address
\* of every node, also of a node without steps.
C20_TouchedAddressSet ==
    ppc \in {"resolve", "done"} =>
        /\ address_list = TouchedUnion
        /\ \A n \in 1..Len(trace_list) :
              /\ Lower(trace_list[n].trace.caller) \in address_list
              /\ Lower(trace_list[n].trace.address) \in address_list

\* a CALL with C on its stack, an SSTORE with C on its stack, and a node
\* without steps: A, B and C are touched, C by the CALL
C20_Witness ==
    /\ ppc = "resolve"
    /\ trace_list = <<CallNode(<<StepCall, StepStoreWide>>), CallNode(<<>>)>>
    /\ address_list = {AddrA, AddrB, AddrC}

(***************************************************************************)
(* Properties of the comparator (under SpecCmp)                            *)
(***************************************************************************)
\* C10. Comparator on equal traces: a trace file compared with itself
\* loads to equal lengths, every step compared matches with no gas mismatch,
\* every step is compared, and the result is 0.
C10_EqualTracesMatch ==
    file1 = file2 =>
        /\ all_match /\ gas_mismatch_count = 0 /\ reported = -1
        /\ cpc # "report"
        /\ cpc \in {"loop", "done"} => Len(traces1) = Len(traces2)
        /\ cpc = "done" => result = 0 /\ ci = Len(traces1)

\* a finished comparison of a file of two different steps with itself
C10_Witness ==
    /\ cpc = "done" /\ file1 = file2
    /\ Len(traces1) = 2 /\ traces1[1] # traces1[2]
    /\ ci = 2 /\ result = 0

\* the indices below min(len1, len2) at which the two traces mismatch
MismatchingIndices ==
    {i \in 0..(Min(Len(traces1), Len(traces2)) - 1) :
        ~compare_traces(traces1[i + 1], traces2[i + 1], no_gas).matches}

\* C12: the comparison ends with a result, which is non-zero exactly when
\* some index below min(len1, len2) mismatches or the lengths differ; the
\* step reported is the lowest mismatching index and the loop stops there.
C12_ResultAndFirstMismatch ==
    /\ cpc \in {"load", "loop", "report", "done"}
    /\ cpc = "done" =>
          /\ result \in {0, 1}
          /\ (result # 0) <=> (MismatchingIndices # {} \/ Len(traces1) # Len(traces2))
          /\ MismatchingIndices = {} =>
                reported = -1 /\ ci = Min(Len(traces1), Len(traces2))
          /\ MismatchingIndices # {} =>
                /\ reported \in MismatchingIndices
                /\ \A j \in MismatchingIndices : reported <= j
                /\ ci = reported

\* a mismatch at the second step of two traces of equal length
C12_Witness ==
    /\ cpc = "done" /\ result = 1
    /\ Len(traces1) = 2 /\ Len(traces2) = 2
    /\ reported = 1

\* the loop body has run on the steps at index ci
Compared ==
    /\ cpc = "loop"
    /\ ci < Min(Len(traces1), Len(traces2))
    /\ (ci' = ci + 1 \/ cpc' = "report")

\* the normalized values of a field of the two steps at index ci are equal
SameField(key, default) ==
    normalize_value(Get(traces1[ci + 1], key, default))
        = normalize_value(Get(traces2[ci + 1], key, default))

SameStack ==
    normalize_stack(Get(traces1[ci + 1], "stack", <<>>))
        = normalize_stack(Get(traces2[ci + 1], "stack", <<>>))

SameGas == SameField("gas", StrV(<<"0", "x", "0">>))

\* C26. Gas mismatch flag: whenever the normalized gas of the two steps
\* compared differs, compare_traces returns gas_mismatch True and main counts
\* it, whatever skip_gas is and also when pc or opcode differ as well.
C26_GasMismatchAlwaysFlagged ==
    [][Compared => (~SameGas => gas_mismatch_count' = gas_mismatch_count + 1)]_vars

\* C27. Match condition: the two steps compared match exactly when their
\* normalized pc, op and stack are equal and, unless gas is skipped, their
\* normalized gas too; depth, gasCost, memSize, refund and opName play no part.
C27_MatchCondition ==
    [][Compared =>
          ((cpc' = "loop" /\ ci' = ci + 1 /\ all_match' = all_match)
              <=> /\ SameField("pc", IntV(0))
                  /\ SameField("op", IntV(0))
                  /\ SameStack
                  /\ (no_gas \/ SameGas))]_vars

\* a finished comparison with gas skipped that found no mismatch: the first
\* two steps differ in depth, gasCost, memSize, refund and opName, the second
\* two in gas
C27_Witness ==
    /\ cpc = "done" /\ result = 0 /\ no_gas
    /\ traces1 = <<ObjA, ObjA>>
    /\ traces2 = <<ObjAOther, ObjAGas9>>
    /\ ci = 2 /\ all_match /\ gas_mismatch_count = 1

(***************************************************************************)
(* Properties of normalize_value (under SpecNorm)                          *)
(***************************************************************************)
\* the number a field value denotes: an integer, a decimal string, or a
\* hex string with a 0x prefix in either case; NoneVal if it denotes none
Denotes(value) ==
    IF ~IsStr(value) THEN IntV(value.int)
    ELSE IF /\ StartsWith(Lower(value.str), <<"0", "x">>)
            /\ Len(value.str) > 2
            /\ \A k \in 3..Len(value.str) : IsHexChar(value.str[k])
    THEN IntV(HexToInt(Lower(value.str)))
    ELSE IF IsDec(Strip(value.str)) THEN IntV(DecToInt(Strip(value.str)))
    ELSE NoneVal

\* C11: two field values that denote the same number have the same normal
\* form, whether each is an integer, a decimal string or a 0x hex string, in
\* any letter case and with any number of leading zeros.
C11_SameNumberSameNormalForm ==
    (/\ npc = "done"
     /\ Denotes(value1) # NoneVal
     /\ Denotes(value1) = Denotes(value2))
        => normalized1 = normalized2

(***************************************************************************)
(* Properties of get_statistics (under SpecStats)                          *)
(***************************************************************************)
\* C15. Statistics on empty input: get_statistics of an empty list returns
\* the empty summary {}; a list of numbers that is not empty returns a
\* summary that counts its elements.
C15_EmptyListEmptySummary ==
    spc = "done" =>
        /\ numbers = <<>> => stats = EmptyDict
        /\ (numbers # <<>> /\ \A k \in 1..Len(numbers) : IsNumber(numbers[k]))
              => stats # EmptyDict /\ stats.Count = Len(numbers)

C15_Witness == spc = "done" /\ numbers = <<>> /\ stats = EmptyDict

(***************************************************************************)
(* Properties of collect_transaction_data (under SpecTx)                   *)
(***************************************************************************)
\* the tool's JSON has no arena, a null arena or an arena without nodes
ArenaAbsent ==
    IF "arena" \notin DOMAIN cast_json THEN TRUE
    ELSE IF cast_json.arena = NoneVal THEN TRUE
    ELSE cast_json.arena.nodes = <<>>

\* the stages of collect_transaction_data in the order of its statements
Stage(pc) ==
    CASE pc = "env" -> 1
      [] pc = "fetch" -> 2
      [] pc = "stats" -> 3
      [] pc = "write_env" -> 4
      [] pc = "write_stats" -> 5
      [] pc = "write_trace" -> 6
      [] pc = "done" -> 7
      [] pc = "raised" -> 8

ZeroNodes == tx_arena = [nodes |-> <<>>]

\* C29. Statistics over an arena with zero call nodes: collect_lists raises
\* instead of returning a summary, so collect_transaction_data gets to the
\* statistics stage at most, raises there and writes no output file.
C29_ZeroNodesFail ==
    ZeroNodes =>
        /\ collect_lists(tx_arena) = Raised
        /\ txpc \in {"stats", "raised"}
        /\ tx_stats = NoneVal
        /\ files = <<>>

\* environment info and three text lines were collected for a transaction
\* whose arena has no node, and the run has raised
C29_Witness ==
    /\ txpc = "raised"
    /\ ZeroNodes
    /\ env_info # NoneVal
    /\ Len(tx_trace_lines) = 3
    /\ tx_stats = NoneVal
    /\ files = <<>>

\* the names of the files written so far, in the order of writing
Written == [k \in 1..Len(files) |-> files[k].name]

OutputOrder == <<"txTest.json", "txStats.json", "txTraceEIP3155.json">>

\* C30. Output ordering: a file is written only after environment info,
\* trace and statistics were all collected; the files are written in the
\* order txTest.json, txStats.json, txTraceEIP3155.json; a run that raised in
\* a collection stage has written none; a run that returned has written all.
C30_OutputOrdering ==
    /\ Len(files) <= Len(OutputOrder)
    /\ Written = SubSeq(OutputOrder, 1, Len(files))
    /\ files # <<>> =>
          /\ env_info # NoneVal
          /\ tx_arena # NoneVal
          /\ tx_stats # NoneVal
          /\ txpc \in {"write_stats", "write_trace", "done"}
    /\ txpc = "raised" => files = <<>>
    /\ txpc = "done" => Written = OutputOrder

\* a run that has written the first two files and not yet the trace
C30_Witness ==
    /\ txpc = "write_trace"
    /\ Written = <<"txTest.json", "txStats.json">>
    /\ files[1].content = env_info
    /\ files[2].content = tx_stats
    /\ tx_trace_lines # <<>>

(***************************************************************************)
(* Properties of the line parser (under SpecLine)                          *)
(***************************************************************************)
Fields(l) == <<l.depth, l.pc, l.gas, l.op, l.refund, l.stack, l.size>>

LacksField(l) == \E k \in 1..7 : Len(Fields(l)[k]) = 0

====
